---- MODULE Spec2Model ----
(***************************************************************************)
(* Model of ocp-tessellate: the conversion pass of OcpConverter (instance  *)
(* registry, scene tree), the process-wide tessellation cache behind        *)
(* tessellate(), and the parallel front end mp_tessellate().                *)
(*                                                                          *)
(* Python's None is the empty sequence <<>>, a present value x is <<x>>.    *)
(* Registry indices (ref) are 0-based as in the code; TLA+ sequences are    *)
(* 1-based, so instance ref lives at instances[ref + 1].                    *)
(***************************************************************************)
EXTENDS Integers, Sequences, FiniteSets, TLC

VARIABLES
    \* ---- one OcpConverter (convert.py) ----
    instances,   \* OcpConverter.instances: list of {"obj", "cache_id", "name"}
    tree,        \* group.objects of the OcpGroup that to_ocp is building
    phase,       \* "convert" while to_ocp loops over its objects, "done" after
    passes,      \* number of converters constructed so far in this process
    saved,       \* a pre-built OcpInstancesGroup kept by the caller, or None
    calls,       \* history: the get_instance calls of this pass, in order
    seenT,       \* history: TShapes of dedup kind met so far in this pass
    \* ---- the tessellation cache (tessellator.py) ----
    maxsize,     \* LRUCache maxsize, from OCP_CACHE_SIZE_MB at import
    cache,       \* LRUCache content, least recently used first
    currsize,    \* LRUCache.currsize
    call,        \* history: the last tessellate call
    first,       \* history: mesh returned by the first call for each request
    used,        \* history: for each key, the call that last used it
    ncalls,      \* number of tessellate calls made so far
    \* ---- parallel mode (mp_tessellator.py) ----
    keymap,      \* KeyMapper: counter and map path -> key
    jobs,        \* worker jobs handed to pool.apply_async, by path
    mpcall,      \* history: the last mp_tessellate call
    \* ---- two caller threads inside the cached wrapper ----
    thr,         \* per thread: position in the wrapper and its locals
    \* ---- one call of a function of the converter, start to end ----
    args,        \* the arguments the caller passes
    out,         \* None while the call has not been made, then its outcome
    \* ---- the bounding-box cache (ocp_utils.py) and the process's memory ----
    heap,        \* the shapes alive: Python object address, TShape address, content
    bbcache,     \* ocp_utils.cache: LRUCache content, least recently used first
    bbout        \* history: the last bounding_box call and what it returned

convVars  == <<instances, tree, phase, passes, saved, calls, seenT>>
cacheVars == <<maxsize, cache, currsize, call, first, used, ncalls>>
mpVars    == <<keymap, jobs, mpcall>>
passVars  == <<args, out>>
bboxVars  == <<heap, bbcache, bbout>>
vars      == <<convVars, cacheVars, mpVars, thr, passVars, bboxVars>>

None    == <<>>
Some(x) == <<x>>

\* f with x mapped to v
With(f, x, v) == [y \in DOMAIN f \cup {x} |-> IF y = x THEN v ELSE f[y]]

\* ------------------------------------------------------------------------
\* Bounds of the model
\* ------------------------------------------------------------------------
MaxCalls  == 3     \* objects handled by one to_ocp pass
MaxPasses == 2     \* converters constructed in one process
MaxTess   == 4     \* tessellate calls made in one process
MaxObjs   == 3     \* objects passed to one to_ocp call

\* ------------------------------------------------------------------------
\* The kernel: placements and shapes
\* ------------------------------------------------------------------------
\* TopLoc_Location: a rigid transform.  Modelled by the permutations of three
\* points, a non-commutative group, so that the order of a composition and
\* the side an inverse is applied on are observable.
Id == <<1, 2, 3>>
AllLocs == {<<1, 2, 3>>, <<1, 3, 2>>, <<2, 1, 3>>, <<2, 3, 1>>, <<3, 1, 2>>, <<3, 2, 1>>}

\* a * b
Mul(a, b) == [i \in 1..3 |-> a[b[i]]]

\* TopLoc_Location.Inverted
Inverted(l) == CHOOSE m \in AllLocs : Mul(l, m) = Id /\ Mul(m, l) = Id

\* TopoDS_Shape.Moved(p): same TShape, location p * Location()
Moved(obj, p) == [obj EXCEPT !.loc = Mul(p, obj.loc)]

\* placements the caller's shapes carry (identity, a swap, a rotation)
Locs == {<<1, 2, 3>>, <<2, 1, 3>>, <<2, 3, 1>>}

\* The TShapes the caller has built.  Two of them (1 and 2) are separate
\* kernel objects with the same content, like Sphere(1) built twice; 9 is a
\* solid of another shape.
TypeOf == <<"Solid", "Solid", "Face", "Shell", "Edge", "Vertex", "Wire", "Face",
            "Solid">>
ContentOf == <<1, 1, 3, 4, 5, 6, 7, 8, 9>>
CallerTShapes == 1..9
FirstFreshT == 10

Shape(t, l) == [tshape |-> t, loc |-> l]

\* get_edges(wire): a wire explodes into its edges, each at the wire's place
EdgesOf(obj) == <<Shape(5, obj.loc), Shape(5, Mul(obj.loc, <<2, 1, 3>>))>>

\* make_compound(objs): a new TopoDS_Compound, hence a new TShape, at identity
make_compound(objs, fresh) == Shape(fresh, Id)

\* serialize(o): BinTools writes the shape's content and its location
serialize(o) == <<ContentOf[o.tshape], o.loc>>

\* create_cache_id(objs): sha256 over the serialized objects, in order
create_cache_id(objs) == [i \in 1..Len(objs) |-> serialize(objs[i])]

get_kind(typ) ==
    CASE typ = "Vertex" -> "vertex"
      [] typ = "Edge"   -> "edge"
      [] typ = "Wire"   -> "edge"
      [] typ = "Face"   -> "face"
      [] typ = "Shell"  -> "face"
      [] typ = "Solid"  -> "solid"

DedupKinds == {"solid", "face", "shell"}

Min(S) == CHOOSE x \in S : \A y \in S : x <= y

\* ------------------------------------------------------------------------
\* OcpConverter
\* ------------------------------------------------------------------------
\* OcpObject(kind, obj=None, ref=None, name, loc, cache_id=None)
OcpObject(kind, obj, ref, name, loc, cache_id) ==
    [kind |-> kind, obj |-> obj, ref |-> ref, name |-> name, loc |-> loc,
     cache_id |-> cache_id]

\* get_instance without the scan of the registry: every call appends
get_instance_noscan(insts, obj, cache_id, name) ==
    [ref |-> Len(insts), loc |-> obj.loc,
     instances |-> Append(insts, [obj |-> Moved(obj, Inverted(obj.loc)),
                                  cache_id |-> cache_id, name |-> name]),
     marks |-> <<>>]

\* get_instance comparing shapes with their placement (IsEqual) instead of
\* comparing the TShapes of the relocated shapes
get_instance_isequal(insts, obj, cache_id, name) ==
    LET found == {i \in 1..Len(insts) : insts[i].obj = obj}
    IN  IF found # {}
        THEN [ref |-> Min(found) - 1, loc |-> obj.loc, instances |-> insts,
              marks |-> <<"-">>]
        ELSE [ref |-> Len(insts), loc |-> obj.loc,
              instances |-> Append(insts, [obj |-> Moved(obj, Inverted(obj.loc)),
                                           cache_id |-> cache_id, name |-> name]),
              marks |-> <<>>]

\* get_instance putting a new instance in front of the registry
get_instance_front(insts, obj, cache_id, name) ==
    LET obj2  == Moved(obj, Inverted(obj.loc))
        found == {i \in 1..Len(insts) : insts[i].obj.tshape = obj2.tshape}
    IN  IF found # {}
        THEN [ref |-> Min(found) - 1, loc |-> obj.loc, instances |-> insts,
              marks |-> <<"-">>]
        ELSE [ref |-> 0, loc |-> obj.loc,
              instances |-> <<[obj |-> obj2, cache_id |-> cache_id,
                               name |-> name]>> \o insts,
              marks |-> <<>>]

\* OcpConverter.get_instance: the result ref, loc, the registry afterwards and
\* the progress marks emitted
get_instance(insts, obj, cache_id, name) ==
    LET loc   == obj.loc
        obj2  == Moved(obj, Inverted(loc))
        found == {i \in 1..Len(insts) : insts[i].obj.tshape = obj2.tshape}
    IN  IF found # {}
        THEN [ref |-> Min(found) - 1, loc |-> loc, instances |-> insts,
              marks |-> <<"-">>]
        ELSE [ref |-> Len(insts), loc |-> loc,
              instances |-> Append(insts, [obj |-> obj2, cache_id |-> cache_id,
                                           name |-> name]),
              marks |-> <<>>]

\* OcpConverter.unify: the OcpObject, the registry afterwards, and the
\* get_instance call made (None for edges and vertices)
unify(insts, objs, kind, name, fresh) ==
    LET ocp_obj == IF Len(objs) = 1 THEN objs[1]
                   ELSE IF kind \in DedupKinds THEN make_compound(objs, fresh)
                   ELSE objs
    IN  IF kind \in DedupKinds
        THEN LET cache_id == create_cache_id(objs)
                 r == get_instance(insts, ocp_obj, cache_id, name)
             IN  [node |-> OcpObject(kind, None, Some(r.ref), name, r.loc,
                                     Some(cache_id)),
                  instances |-> r.instances,
                  call |-> Some([arg |-> ocp_obj, ref |-> r.ref, loc |-> r.loc,
                                 len0 |-> Len(insts)])]
        ELSE [node |-> OcpObject(kind, Some(ocp_obj), None, name, Id, None),
              instances |-> insts,
              call |-> None]

\* OcpConverter.handle_shapes for one TopoDS / build123d / CadQuery shape
handle_shapes(insts, obj, fresh) ==
    LET typ   == TypeOf[obj.tshape]
        objs  == IF typ = "Wire" THEN EdgesOf(obj) ELSE <<obj>>
    IN  unify(insts, objs, get_kind(typ), typ, fresh)

\* OcpConverter._handle_list for a ShapeList / Workplane of plain shapes
handle_list(insts, objs, fresh) ==
    LET typ == TypeOf[objs[1].tshape]
    IN  unify(insts, objs, get_kind(typ), typ, fresh)

\* OcpWrapper.to_ocp: the wrapper's own OcpObject, geometry inline
wrapper_to_ocp(w) == OcpObject(w.kind, Some(w.objs), None, w.name, w.loc, None)

\* handle_ocp_wrapper that sets the ref and keeps the inline geometry
handle_ocp_wrapper_keepobj(insts, w) ==
    LET ocp_obj == wrapper_to_ocp(w)
        r == get_instance(insts, w.objs[1], create_cache_id(<<w.objs[1]>>), w.name)
    IN  [node |-> [ocp_obj EXCEPT !.loc = Mul(w.loc, r.loc), !.ref = Some(r.ref)],
         instances |-> r.instances,
         call |-> Some([arg |-> w.objs[1], ref |-> r.ref, loc |-> r.loc,
                        len0 |-> Len(insts)])]

\* OcpConverter.handle_ocp_wrapper
handle_ocp_wrapper(insts, w) ==
    LET ocp_obj == wrapper_to_ocp(w)
    IN  IF ocp_obj.kind \in {"solid", "imageface", "face", "shell"}
        THEN LET r == get_instance(insts, w.objs[1],
                                   create_cache_id(<<w.objs[1]>>), w.name)
             IN  [node |-> [ocp_obj EXCEPT !.loc = Mul(w.loc, r.loc),
                                           !.ref = Some(r.ref),
                                           !.obj = None],
                  instances |-> r.instances,
                  call |-> Some([arg |-> w.objs[1], ref |-> r.ref, loc |-> r.loc,
                                 len0 |-> Len(insts)])]
        ELSE [node |-> ocp_obj, instances |-> insts, call |-> None]

\* OcpConverter.handle_empty_iterables: a vertex at the origin, named
\* f"{name} (empty)", with Color((0, 0, 0, 0.01)) (alpha in percent)
handle_empty_iterables(obj_name) ==
    OcpObject("vertex", Some(Shape(0, Id)), None,
              Append(IF obj_name = None THEN <<"Object">> ELSE obj_name, " (empty)"),
              Id, None)
    @@ [color |-> [rgb |-> "black", a |-> 1]]

\* OcpInstancesGroup.apply_offset(n): every ref of the group's tree moves by n
apply_offset(nodes, n) ==
    [i \in 1..Len(nodes) |->
        IF nodes[i].ref = None THEN nodes[i]
        ELSE [nodes[i] EXCEPT !.ref = Some(nodes[i].ref[1] + n)]]

\* to_ocp, for an OcpInstancesGroup: shift the group's refs behind the
\* registry, take the group's tree as the node, append the group's instances
merge_instances_group(insts, g) ==
    [group |-> [g EXCEPT !.ocpgrp = apply_offset(g.ocpgrp, Len(insts))],
     instances |-> insts \o g.instances]

\* to_ocpgroup(obj) on a fresh converter, kept as an OcpInstancesGroup
BuildGroup(obj) ==
    LET r == handle_shapes(<<>>, obj, 0)
    IN  [ocpgrp |-> <<r.node>>, instances |-> r.instances]

\* ------------------------------------------------------------------------
\* What callers pass to to_ocp
\* ------------------------------------------------------------------------
Swap == <<2, 1, 3>>
Rot  == <<2, 3, 1>>

ShapeInputs ==
    {Shape(1, l) : l \in Locs}
    \cup {Shape(2, Id), Shape(3, Id), Shape(4, Swap), Shape(5, Id), Shape(6, Id),
          Shape(7, Rot)}

ListInputs == {<<Shape(1, Id), Shape(2, Swap)>>}

Wrappers ==
    {[kind |-> "imageface", objs |-> <<Shape(8, Swap)>>, loc |-> Rot,
      name |-> "ImageFace"],
     [kind |-> "edge", objs |-> <<Shape(5, Id), Shape(5, Swap)>>,
      loc |-> Id, name |-> "CoordSystem"]}

GroupSources == {Shape(1, Swap)}

\* The nodes of the tree built so far; a merged OcpInstancesGroup's tree is
\* the group object itself, so its nodes are read through `saved`.
IsGroup(n) == n.kind = "group"
ObjectNodes ==
    LET Flat[i \in 0..Len(tree)] ==
            IF i = 0 THEN <<>>
            ELSE IF IsGroup(tree[i]) THEN Flat[i - 1] \o saved[1].ocpgrp
            ELSE Append(Flat[i - 1], tree[i])
    IN  Flat[Len(tree)]

TShapesOf(insts) == {insts[i].obj.tshape : i \in 1..Len(insts)}

\* ------------------------------------------------------------------------
\* The conversion pass: one action per object handled by to_ocp's loop
\* ------------------------------------------------------------------------
CacheIdle ==
    /\ maxsize = 0 /\ cache = <<>> /\ currsize = 0
    /\ call = None /\ first = <<>> /\ used = <<>> /\ ncalls = 0
MpIdle == keymap = [counter |-> 0, map |-> <<>>] /\ jobs = <<>> /\ mpcall = None
ThrIdle == thr = <<>>
PassIdle == args = None /\ out = None
BBoxIdle == heap = {} /\ bbcache = <<>> /\ bbout = None

InitConv ==
    /\ instances = <<>>
    /\ tree = <<>>
    /\ phase = "convert"
    /\ passes = 1
    /\ saved \in {Some(BuildGroup(s)) : s \in GroupSources}
    /\ calls = <<>>
    /\ seenT = {}

Init == InitConv /\ CacheIdle /\ MpIdle /\ BBoxIdle /\ ThrIdle /\ PassIdle

CanConvert == phase = "convert" /\ Len(tree) < MaxCalls

\* the TShape the kernel gives the next new shape: none of the registry's
FreshT == FirstFreshT + Len(instances)

\* the bookkeeping common to the handlers that go through unify
Handled(r) ==
    /\ instances' = r.instances
    /\ tree' = Append(tree, r.node)
    /\ calls' = calls \o r.call
    /\ seenT' = seenT \cup {c.arg.tshape : c \in {r.call[i] : i \in 1..Len(r.call)}}

ConvertShape ==
    /\ CanConvert
    /\ \E obj \in ShapeInputs : Handled(handle_shapes(instances, obj, FreshT))
    /\ UNCHANGED <<passVars, bboxVars>>
    /\ UNCHANGED <<phase, passes, saved, cacheVars, mpVars, thr>>

ConvertShapeList ==
    /\ CanConvert
    /\ \E objs \in ListInputs : Handled(handle_list(instances, objs, FreshT))
    /\ UNCHANGED <<passVars, bboxVars>>
    /\ UNCHANGED <<phase, passes, saved, cacheVars, mpVars, thr>>

ConvertWrapper ==
    /\ CanConvert
    /\ \E w \in Wrappers : Handled(handle_ocp_wrapper(instances, w))
    /\ UNCHANGED <<passVars, bboxVars>>
    /\ UNCHANGED <<phase, passes, saved, cacheVars, mpVars, thr>>

ConvertEmpty ==
    /\ CanConvert
    /\ tree' = Append(tree, handle_empty_iterables(None))
    /\ UNCHANGED <<passVars, bboxVars>>
    /\ UNCHANGED <<instances, calls, seenT, phase, passes, saved,
                   cacheVars, mpVars, thr>>

ConvertInstancesGroup ==
    /\ CanConvert
    /\ saved # None
    /\ LET r == merge_instances_group(instances, saved[1])
       IN  /\ saved' = Some(r.group)
           /\ instances' = r.instances
           /\ tree' = Append(tree, [kind |-> "group"])
           /\ seenT' = seenT \cup TShapesOf(saved[1].instances)
    /\ UNCHANGED <<passVars, bboxVars>>
    /\ UNCHANGED <<calls, phase, passes, cacheVars, mpVars, thr>>

\* to_ocp returns
Finish ==
    /\ phase = "convert"
    /\ phase' = "done"
    /\ UNCHANGED <<passVars, bboxVars>>
    /\ UNCHANGED <<instances, tree, passes, saved, calls, seenT,
                   cacheVars, mpVars, thr>>

\* the next top-level conversion constructs a new OcpConverter
NewConverter ==
    /\ phase = "done"
    /\ passes < MaxPasses
    /\ passes' = passes + 1
    /\ phase' = "convert"
    /\ instances' = <<>>
    /\ tree' = <<>>
    /\ calls' = <<>>
    /\ seenT' = {}
    /\ UNCHANGED <<passVars, bboxVars>>
    /\ UNCHANGED <<saved, cacheVars, mpVars, thr>>

Next ==
    \/ ConvertShape
    \/ ConvertShapeList
    \/ ConvertWrapper
    \/ ConvertEmpty
    \/ ConvertInstancesGroup
    \/ Finish
    \/ NewConverter

Spec == Init /\ [][Next]_vars

\* ------------------------------------------------------------------------
\* Names and colors
\* ------------------------------------------------------------------------
\* A name is the sequence of the pieces it is written from: <<"Solid">> is
\* "Solid", <<"Solid", "(2)">> is "Solid(2)", whoever wrote it.
Paren == <<"(1)", "(2)", "(3)", "(4)", "(5)", "(6)">>

\* make_unique that counts the first occurrence as number 0
make_unique_fromzero(names) ==
    LET F[i \in 0..Len(names)] ==
            IF i = 0 THEN [found |-> <<>>, unique_names |-> <<>>]
            ELSE LET p == F[i - 1]
                     name == names[i]
                 IN  IF name = None
                     THEN [found |-> p.found,
                           unique_names |-> Append(p.unique_names, None)]
                     ELSE IF name \notin DOMAIN p.found
                     THEN [found |-> With(p.found, name, 0),
                           unique_names |-> Append(p.unique_names, name)]
                     ELSE [found |-> With(p.found, name, p.found[name] + 1),
                           unique_names |->
                               Append(p.unique_names,
                                      Append(name, Paren[p.found[name] + 1]))]
    IN  F[Len(names)].unique_names

\* utils.make_unique(names)
make_unique(names) ==
    LET F[i \in 0..Len(names)] ==
            IF i = 0 THEN [found |-> <<>>, unique_names |-> <<>>]
            ELSE LET p == F[i - 1]
                     name == names[i]
                 IN  IF name = None
                     THEN [found |-> p.found,
                           unique_names |-> Append(p.unique_names, None)]
                     ELSE IF name \notin DOMAIN p.found
                     THEN [found |-> With(p.found, name, 1),
                           unique_names |-> Append(p.unique_names, name)]
                     ELSE [found |-> With(p.found, name, p.found[name] + 1),
                           unique_names |->
                               Append(p.unique_names,
                                      Append(name, Paren[p.found[name] + 1]))]
    IN  F[Len(names)].unique_names

\* OcpGroup.make_unique_names: the children renamed by make_unique
make_unique_names(group) ==
    LET names == make_unique([i \in 1..Len(group.objects) |-> group.objects[i].name])
    IN  [group EXCEPT !.objects =
            [i \in 1..Len(group.objects) |->
                [group.objects[i] EXCEPT !.name = names[i]]]]

\* get_name(obj, name, default)
get_name(obj, name, default) ==
    IF name # None THEN name
    ELSE IF "name" \in DOMAIN obj /\ obj.name # None THEN obj.name
    ELSE IF "label" \in DOMAIN obj /\ obj.label # None THEN obj.label
    ELSE <<default>>

\* Color(color): a copy; an alpha above 1.0 becomes 1.0.  Alpha in percent.
Color(color) == [rgb |-> color.rgb, a |-> IF color.a > 100 THEN 100 ELSE color.a]

Named(rgb) == [rgb |-> rgb, a |-> 100]
THICK_EDGE_COLOR == Named("MediumOrchid")
VERTEX_COLOR == Named("MediumOrchid")
FACE_COLOR == Named("Violet")
\* OcpConverter.default_color = get_default("default_color")
default_color == Named("default_color")

default_colors(kind) ==
    CASE kind = "edge"   -> THICK_EDGE_COLOR
      [] kind = "wire"   -> THICK_EDGE_COLOR
      [] kind = "face"   -> FACE_COLOR
      [] kind = "shell"  -> FACE_COLOR
      [] kind = "solid"  -> default_color
      [] kind = "vertex" -> VERTEX_COLOR

\* get_color_for_object with the argument and the attribute swapped
get_color_for_object_ownfirst(obj, color, alpha, kind) ==
    LET col == IF "color" \in DOMAIN obj /\ obj.color # None THEN Color(obj.color[1])
               ELSE IF color # None THEN Color(color[1])
               ELSE Color(default_colors(kind))
    IN  IF alpha # None THEN [col EXCEPT !.a = alpha[1]] ELSE col

\* OcpConverter.get_color_for_object(obj, color, alpha, kind)
get_color_for_object(obj, color, alpha, kind) ==
    LET col == IF color # None THEN Color(color[1])
               ELSE IF "color" \in DOMAIN obj /\ obj.color # None
               THEN Color(obj.color[1])
               ELSE Color(default_colors(kind))
        col_a == IF "alpha" \in DOMAIN obj /\ obj.alpha # None
                 THEN [col EXCEPT !.a = obj.alpha[1]] ELSE col
    IN  IF alpha # None THEN [col_a EXCEPT !.a = alpha[1]] ELSE col_a

\* ------------------------------------------------------------------------
\* to_ocp as one call: the objects a caller passes and the tree it gets back
\* ------------------------------------------------------------------------
\* OcpGroup(objects, name, loc)
Group(name, loc, objects) ==
    [kind |-> "group", name |-> name, loc |-> loc, objects |-> objects]

\* OcpGroup.length
Length(group) == Len(group.objects)

\* cleanup that returns the child as it is
RECURSIVE cleanup_droploc(_)
cleanup_droploc(group) ==
    IF IsGroup(group) /\ Length(group) = 1
    THEN cleanup_droploc(group.objects[1])
    ELSE group

\* OcpGroup.cleanup: a group with one child collapses into that child, which
\* inherits the group's placement composed with its own
RECURSIVE cleanup(_)
cleanup(group) ==
    IF IsGroup(group) /\ Length(group) = 1
    THEN cleanup([group.objects[1] EXCEPT !.loc = Mul(group.loc, @)])
    ELSE group

\* A TopoDS_Compound is a shape with the sequence of its direct elements
is_topods_compound(obj) == "items" \in DOMAIN obj

\* is_mixed_compound looking at the direct elements only
RECURSIVE types_direct(_, _)
types_direct(items, typ) ==
    IF items = <<>> THEN typ
    ELSE LET obj == Head(items)
             t == IF is_topods_compound(obj)
                  THEN (IF typ = None THEN Some("Compound")
                        ELSE IF typ # Some("Compound") THEN Some("mixed") ELSE typ)
                  ELSE IF typ = None THEN Some(TypeOf[obj.tshape])
                  ELSE IF typ # Some(TypeOf[obj.tshape]) THEN Some("mixed")
                  ELSE typ
         IN  types_direct(Tail(items), t)

is_mixed_compound_direct(compound) == types_direct(compound.items, None) = Some("mixed")

\* unroll_topods_compound(compound, typ): the type of the leaves met so far
RECURSIVE unroll_topods_compound(_, _)
unroll_topods_compound(items, typ) ==
    IF items = <<>> THEN typ
    ELSE LET obj == Head(items)
             t == IF is_topods_compound(obj)
                  THEN unroll_topods_compound(obj.items, typ)
                  ELSE IF typ = None THEN Some(TypeOf[obj.tshape])
                  ELSE IF typ # Some(TypeOf[obj.tshape]) THEN Some("mixed")
                  ELSE typ
         IN  unroll_topods_compound(Tail(items), t)

get_compound_type(compound) == unroll_topods_compound(compound.items, None)
is_mixed_compound(compound) == get_compound_type(compound) = Some("mixed")

\* serialize(o) for a shape that may be a compound
RECURSIVE serialize_topods(_)
serialize_topods(o) ==
    IF is_topods_compound(o)
    THEN <<[i \in 1..Len(o.items) |-> serialize_topods(o.items[i])], o.loc>>
    ELSE serialize(o)

\* OcpConverter.unify([obj], kind, name, ...) for obj a TopoDS_Compound
unify_compound(insts, obj, kind, name) ==
    LET ocp_objs == obj.items
        ocp_obj  == IF Len(ocp_objs) = 1 THEN ocp_objs[1]
                    ELSE IF kind \in {"edge", "vertex"} THEN ocp_objs
                    ELSE obj
    IN  IF kind \in DedupKinds
        THEN LET cache_id == <<serialize_topods(obj)>>
                 r == get_instance(insts, ocp_obj, cache_id, name)
             IN  [node |-> OcpObject(kind, None, Some(r.ref), name, r.loc,
                                     Some(cache_id)),
                  instances |-> r.instances]
        ELSE [node |-> OcpObject(kind, Some(ocp_obj), None, name, Id, None),
              instances |-> insts]

\* The outcome of a call: an exception, or the node returned (None when the
\* object was skipped), with the registry afterwards, what was printed and
\* the number of objects a handler was called for
Raised(err, insts, log, handled) ==
    [raised |-> TRUE, error |-> err, node |-> None, instances |-> insts,
     log |-> log, handled |-> handled]
Returned(node, insts, log, handled) ==
    [raised |-> FALSE, error |-> "", node |-> node, instances |-> insts,
     log |-> log, handled |-> handled]

\* the registry with the name of the entries appended behind the first n set
Renamed(insts, n, name) ==
    [i \in 1..Len(insts) |-> IF i > n THEN [insts[i] EXCEPT !.name = name]
                             ELSE insts[i]]

\* OcpConverter.handle_shapes(cad_obj, obj_name, ..., color, alpha, level)
handle_shapes_colored(insts, cad_obj, obj_name, color, alpha) ==
    LET obj == cad_obj.wrapped
        typ == IF is_topods_compound(obj) THEN get_compound_type(obj)
               ELSE Some(TypeOf[obj.tshape])
    IN  IF typ = None \/ typ = Some("mixed")
        THEN Raised("Unknown type", insts, <<>>, 1)
        ELSE LET kind == get_kind(typ[1])
                 name == get_name(cad_obj, obj_name, typ[1])
                 c    == get_color_for_object(cad_obj, color, alpha, kind)
                 r    == IF is_topods_compound(obj)
                         THEN unify_compound(insts, obj, kind, name)
                         ELSE handle_shapes(insts, obj, FirstFreshT + Len(insts))
                 c2   == get_color_for_object(obj, Some(c), alpha, kind)
             IN  Returned(Some([r.node EXCEPT !.name = name] @@ [color |-> c2]),
                          Renamed(r.instances, Len(insts), name), <<>>, 1)

\* the empty-object test of to_ocp: an iterable without elements
\* (is_empty_compound: a compound without elements)
is_empty(cad_obj) ==
    \/ cad_obj.type \in {"list", "dict"} /\ cad_obj.items = <<>>
    \/ cad_obj.type = "compound" /\ cad_obj.wrapped.items = <<>>

Unnamed(items) == [i \in 1..Len(items) |-> [name |-> None, obj |-> items[i]]]

\* the objects to_ocp unrolls: a list or tuple, a mixed compound, a dict
is_iterable(cad_obj) ==
    \/ cad_obj.type \in {"list", "dict"}
    \/ cad_obj.type = "compound" /\ is_mixed_compound(cad_obj.wrapped)

\* what handle_list_tuple, handle_compound and handle_dict hand to
\* _unroll_iterable: the elements (of a compound: its direct TopoDS elements)
\* and the names, which only a dict has
elements(cad_obj) ==
    CASE cad_obj.type = "list" -> Unnamed(cad_obj.items)
      [] cad_obj.type = "compound" ->
            Unnamed([i \in 1..Len(cad_obj.wrapped.items) |->
                        [type |-> IF is_topods_compound(cad_obj.wrapped.items[i])
                                  THEN "compound" ELSE "shape",
                         wrapped |-> cad_obj.wrapped.items[i]]])
      [] cad_obj.type = "dict" ->
            [i \in 1..Len(cad_obj.items) |->
                [name |-> cad_obj.keys[i], obj |-> cad_obj.items[i]]]

default_name(cad_obj) ==
    CASE cad_obj.type = "list" -> "List"
      [] cad_obj.type = "compound" -> "Compound"
      [] cad_obj.type = "dict" -> "Dict"

Start(insts) == Returned(<<>>, insts, <<>>, 0)

\* _unroll_iterable: if result.length > 0: ocp_obj.add(result.cleanup())
unroll_add(acc, result) ==
    [result EXCEPT
        !.node = IF result.raised THEN None
                 ELSE IF Length(result.node[1]) > 0
                 THEN Append(acc.node, cleanup(result.node[1]))
                 ELSE acc.node,
        !.log = acc.log \o @,
        !.handled = acc.handled + @]

\* to_ocp, list branch: if ocp_obj.length == 0 the placeholder is added
list_or_placeholder(r, cad_obj, obj_name) ==
    IF cad_obj.type = "list" /\ ~r.raised /\ Length(r.node[1]) = 0
    THEN [r EXCEPT !.node = Some([r.node[1] EXCEPT !.objects =
                              <<handle_empty_iterables(obj_name)>>]),
                   !.handled = @ + 1]
    ELSE [r EXCEPT !.handled = @ + 1]

\* handle_cadquery_assembly: ocp_obj.add(sub_obj.objects[0])
assembly_add(sub_obj, name, loc) ==
    IF sub_obj.raised THEN [sub_obj EXCEPT !.handled = @ + 1]
    ELSE [sub_obj EXCEPT
             !.node = Some(Group(name, loc, <<sub_obj.node[1].objects[1]>>)),
             !.handled = @ + 1]

\* to_ocp, end of the loop body: an empty group is not added
group_add(acc, r) ==
    [r EXCEPT !.node = IF r.raised THEN None
                       ELSE IF /\ r.node # None
                               /\ ~(IsGroup(r.node[1]) /\ Length(r.node[1]) = 0)
                       THEN Append(acc.node, r.node[1])
                       ELSE acc.node,
              !.log = acc.log \o @,
              !.handled = acc.handled + @]

\* to_ocp, after the loop: unique names, and a root group whose only child
\* is a group is cleaned up
to_ocp_return(r) ==
    IF r.raised THEN r
    ELSE [r EXCEPT !.node =
            Some(IF Len(r.node) = 1 /\ IsGroup(r.node[1])
                 THEN cleanup(make_unique_names(Group(<<"Group">>, Id, r.node)))
                 ELSE make_unique_names(Group(<<"Group">>, Id, r.node)))]

\* OcpConverter.handle_ocp_wrapper with the name to_ocp passes
handle_ocp_wrapper_named(insts, cad_obj, obj_name, r) ==
    Returned(Some([r.node EXCEPT !.name =
                      get_name([name |-> <<cad_obj.wrapper.name>>], obj_name,
                               "ImageFace")]
                  @@ [color |-> cad_obj.color[1]]),
             Renamed(r.instances, Len(insts),
                     get_name([name |-> <<cad_obj.wrapper.name>>], obj_name,
                              "ImageFace")),
             <<>>, 1)

RECURSIVE to_ocp(_, _, _, _, _)
RECURSIVE unroll_iterable(_, _, _, _, _)
RECURSIVE convert(_, _, _, _, _)

\* OcpConverter._unroll_iterable(objs, obj_name, color, alpha, ...), the
\* group built so far in acc
unroll_iterable(acc, pairs, obj_name, color, alpha) ==
    IF acc.raised THEN acc
    ELSE IF pairs = <<>>
    THEN Returned(Some(make_unique_names(Group(obj_name, Id, acc.node))),
                  acc.instances, acc.log, acc.handled)
    ELSE unroll_iterable(
             unroll_add(acc, to_ocp(acc.instances, <<Head(pairs).obj>>,
                                    Some(<<Head(pairs).name>>), Some(<<color>>),
                                    Some(<<alpha>>))),
             Tail(pairs), obj_name, color, alpha)

\* OcpConverter.handle_cadquery_assembly for an assembly without children
handle_cadquery_assembly(insts, cad_obj, obj_name, color, alpha) ==
    IF cad_obj.obj = None
    THEN Returned(Some(Group(get_name(cad_obj, obj_name, "Assembly"),
                             cad_obj.loc, <<>>)), insts, <<>>, 1)
    ELSE IF alpha # None
    THEN Raised("Invalid type for alphas", insts, <<>>, 1)
    ELSE assembly_add(to_ocp(insts, <<cad_obj.obj[1]>>, Some(<<cad_obj.name>>),
                             Some(<<IF color = None THEN cad_obj.color ELSE color>>),
                             None),
                      get_name(cad_obj, obj_name, "Assembly"), cad_obj.loc)

\* the body of to_ocp's loop for one object: the branches in source order
convert(insts, cad_obj, obj_name, color, alpha) ==
    IF cad_obj.type = "number" THEN Returned(None, insts, <<>>, 0)
    ELSE IF is_empty(cad_obj)
    THEN Returned(Some(handle_empty_iterables(obj_name)), insts, <<>>, 1)
    ELSE IF is_iterable(cad_obj)
    THEN list_or_placeholder(
             unroll_iterable(Start(insts), elements(cad_obj),
                             get_name(cad_obj, obj_name, default_name(cad_obj)),
                             color, alpha),
             cad_obj, obj_name)
    ELSE IF cad_obj.type = "cq_assembly"
    THEN handle_cadquery_assembly(insts, cad_obj, obj_name, color, alpha)
    ELSE IF cad_obj.type = "wrapper"
    THEN handle_ocp_wrapper_named(insts, cad_obj, obj_name,
                                  handle_ocp_wrapper(insts, cad_obj.wrapper))
    ELSE IF cad_obj.type \in {"shape", "compound"}
    THEN handle_shapes_colored(insts, cad_obj, obj_name, color, alpha)
    ELSE Returned(None, insts,
                  <<[msg |-> "Unknown object", name |-> obj_name,
                     type |-> cad_obj.type]>>, 0)

\* the loop of to_ocp over zip(cad_objs, names, colors, alphas)
RECURSIVE to_ocp_loop(_, _, _, _, _, _)
to_ocp_loop(acc, i, cad_objs, names, colors, alphas) ==
    IF acc.raised \/ i > Len(cad_objs) THEN acc
    ELSE to_ocp_loop(group_add(acc, convert(acc.instances, cad_objs[i], names[i],
                                            colors[i], alphas[i])),
                     i + 1, cad_objs, names, colors, alphas)

NoneList(n) == [i \in 1..n |-> None]
Padded(l, n) == [i \in 1..n |-> IF l # None /\ i <= Len(l[1]) THEN l[1][i] ELSE None]

\* the length check of to_ocp_validate_late
late_check(r, n, names, colors, alphas) ==
    IF r.raised THEN r
    ELSE IF \/ names # None /\ Len(names[1]) # n
            \/ alphas # None /\ Len(alphas[1]) # n
            \/ colors # None /\ Len(colors[1]) # n
    THEN Raised("Length does not match the number of objects",
                r.instances, r.log, r.handled)
    ELSE to_ocp_return(r)

\* to_ocp that checks the lengths when it reaches the end of its loop
to_ocp_validate_late(insts, cad_objs, names, colors, alphas) ==
    late_check(to_ocp_loop(Start(insts), 1, cad_objs,
                           Padded(names, Len(cad_objs)),
                           Padded(colors, Len(cad_objs)),
                           Padded(alphas, Len(cad_objs))),
               Len(cad_objs), names, colors, alphas)

\* OcpConverter.to_ocp(*cad_objs, names=, colors=, alphas=)
to_ocp(insts, cad_objs, names, colors, alphas) ==
    IF names # None /\ Len(names[1]) # Len(cad_objs)
    THEN Raised("Length of names does not match the number of objects",
                insts, <<>>, 0)
    ELSE IF alphas # None /\ Len(alphas[1]) # Len(cad_objs)
    THEN Raised("Length of alphas does not match the number of objects",
                insts, <<>>, 0)
    ELSE IF colors # None /\ Len(colors[1]) # Len(cad_objs)
    THEN Raised("Length of colors does not match the number of objects",
                insts, <<>>, 0)
    ELSE to_ocp_return(
             to_ocp_loop(Start(insts), 1, cad_objs,
                         IF names = None THEN NoneList(Len(cad_objs))
                         ELSE make_unique(names[1]),
                         IF colors = None THEN NoneList(Len(cad_objs)) ELSE colors[1],
                         IF alphas = None THEN NoneList(Len(cad_objs)) ELSE alphas[1]))

\* ------------------------------------------------------------------------
\* Python calls: binding of positional and keyword arguments to parameters
\* ------------------------------------------------------------------------
\* Python values are numbers here: None, False and True, the content hashes,
\* the shape objects, the tolerances and the progress object.
PyNone  == 0 - 1
PyFalse == 0
PyTrue  == 1

Range(f) == {f[x] : x \in DOMAIN f}
IndexOf(seq, x) == CHOOSE i \in 1..Len(seq) : seq[i] = x

\* f(*pos, **kw) for a function with parameters `params`, the first `nreq` of
\* them without default: the bound arguments, or a TypeError
Bind(params, nreq, defaults, pos, kw) ==
    IF \/ Len(pos) > Len(params)
       \/ \E n \in DOMAIN kw : n \notin Range(params)
       \/ \E i \in 1..Len(pos) : i <= Len(params) /\ params[i] \in DOMAIN kw
       \/ \E i \in 1..nreq : i > Len(pos) /\ params[i] \notin DOMAIN kw
    THEN [ok |-> FALSE]
    ELSE [ok |-> TRUE,
          args |-> [n \in Range(params) |->
                       IF IndexOf(params, n) <= Len(pos) THEN pos[IndexOf(params, n)]
                       ELSE IF n \in DOMAIN kw THEN kw[n]
                       ELSE defaults[n]]]

make_key_params ==
    <<"shape", "cache_key", "deviation", "quality", "angular_tolerance",
      "compute_edges", "compute_faces", "debug", "progress", "shape_id">>
make_key_defaults ==
    [compute_edges |-> PyTrue, compute_faces |-> PyTrue, debug |-> PyFalse,
     progress |-> PyNone, shape_id |-> PyNone]

tessellate_params ==
    <<"shape", "cache_key", "deviation", "quality", "angular_tolerance",
      "compute_faces", "compute_edges", "debug", "progress", "shape_id">>
tessellate_defaults ==
    [compute_faces |-> PyTrue, compute_edges |-> PyTrue, debug |-> PyFalse,
     progress |-> PyNone, shape_id |-> PyNone]

\* ------------------------------------------------------------------------
\* cache = LRUCache(maxsize=cache_size, getsizeof=get_size)
\* ------------------------------------------------------------------------
\* The cache is the sequence of its entries [key, value, size], the least
\* recently used first; currsize is the LRUCache's own running total.
Keys(c) == {c[i].key : i \in 1..Len(c)}
Pos(c, k) == CHOOSE i \in 1..Len(c) : c[i].key = k
Without(c, i) == SubSeq(c, 1, i - 1) \o SubSeq(c, i + 1, Len(c))

\* a cache that does not record the use of a key (first in, first out)
lru_touch_fifo(c, k) == c

\* LRUCache.__getitem__ / Cache.get for a key that is present: the value, and
\* the key becomes the most recently used
lru_touch(c, k) == Append(Without(c, Pos(c, k)), c[Pos(c, k)])

\* the popitem loop of Cache.__setitem__: drop least recently used entries
\* while currsize + size > maxsize
RECURSIVE lru_evict(_, _, _, _)
lru_evict(c, cs, size, maxs) ==
    IF cs + size > maxs /\ c # <<>>
    THEN lru_evict(Tail(c), cs - c[1].size, size, maxs)
    ELSE [cache |-> c, currsize |-> cs]

\* Cache.__setitem__, first half: the eviction that makes room for the value
setitem_evict(c, cs, maxs, k, size) ==
    IF k \notin Keys(c) \/ c[Pos(c, k)].size < size
    THEN lru_evict(c, cs, size, maxs)
    ELSE [cache |-> c, currsize |-> cs]

\* Cache.__setitem__, second half: store the value, add the difference in
\* size to currsize, and make the key the most recently used
setitem_store(c, cs, k, v, size) ==
    LET diffsize == IF k \in Keys(c) THEN size - c[Pos(c, k)].size ELSE size
        rest == IF k \in Keys(c) THEN Without(c, Pos(c, k)) ELSE c
    IN  [cache |-> Append(rest, [key |-> k, value |-> v, size |-> size]),
         currsize |-> cs + diffsize]

\* LRUCache.__setitem__(key, value): ValueError when the value alone is larger
\* than maxsize, else evict, store and make the key the most recently used
lru_setitem(c, cs, maxs, k, v, size) ==
    IF size > maxs THEN [ok |-> FALSE, cache |-> c, currsize |-> cs]
    ELSE LET e == setitem_evict(c, cs, maxs, k, size)
             st == setitem_store(e.cache, e.currsize, k, v, size)
         IN  [ok |-> TRUE, cache |-> st.cache, currsize |-> st.currsize]

\* the arguments of a call as make_key and as tessellate receive them
BindMakeKey(pos, kw) == Bind(make_key_params, 5, make_key_defaults, pos, kw)
BindTessellate(pos, kw) == Bind(tessellate_params, 5, tessellate_defaults, pos, kw)

\* make_key(*args, **kwargs), its arguments bound as b: the cache key, the 'c'
\* mark it sends to progress when the key is cached, and the cache after its
\* cache.get(key)
make_key(c, b) ==
        IF ~b.ok THEN [ok |-> FALSE]
        ELSE LET key == <<b.args["cache_key"], b.args["deviation"],
                          b.args["angular_tolerance"], b.args["compute_edges"],
                          b.args["compute_faces"]>>
                 seen == b.args["progress"] # PyNone /\ key \in Keys(c)
             IN  [ok |-> TRUE, key |-> key,
                  marks |-> IF seen THEN <<"c">> ELSE <<>>,
                  cache |-> IF seen THEN lru_touch(c, key) ELSE c]

\* The kernel's tessellation of a shape: fixed by the shape's content and the
\* parameters handed to Tessellator.compute
\* (204 is a degenerate shape: the kernel finds no vertex and no triangle)
ShapeContent(shape) ==
    IF shape \in {201, 202} THEN 101 ELSE IF shape = 204 THEN 100 ELSE 102
Mesh(shape, quality, angular_tolerance, compute_faces, compute_edges) ==
    <<ShapeContent(shape), quality, angular_tolerance, compute_faces, compute_edges>>

\* get_size(obj): for a mesh, more content and a finer quality give a larger
\* mesh; for a job handle <<0, path>>, the size of the one object
get_size(v) == IF v[1] = 0 THEN 1 ELSE (v[1] - 100) + (v[2] - 21)

\* tessellate's body: the progress mark of the tessellator chosen, the mesh
tessellate_body(b, native) ==
        IF ~b.ok THEN [ok |-> FALSE]
        ELSE [ok |-> TRUE,
              marks |-> IF b.args["progress"] = PyNone THEN <<>>
                        ELSE IF native THEN <<"*">> ELSE <<"+">>,
              value |-> Mesh(b.args["shape"], b.args["quality"],
                             b.args["angular_tolerance"],
                             b.args["compute_faces"], b.args["compute_edges"])]

\* the wrapper without its lookup: every call runs the function and stores
tessellate_recompute(c, cs, maxs, mk, tb, native) ==
    LET k == make_key(c, mk)
        t == tessellate_body(tb, native)
        st == lru_setitem(k.cache, cs, maxs, k.key, t.value, get_size(t.value))
    IN  IF ~k.ok \/ ~t.ok THEN [raised |-> TRUE, cache |-> c, currsize |-> cs]
        ELSE [raised |-> FALSE, key |-> k.key, hit |-> FALSE,
              marks |-> k.marks \o t.marks, result |-> t.value,
              cache |-> st.cache, currsize |-> st.currsize]

\* @cached(cache, key=make_key) around tessellate: one whole call, its
\* arguments bound as mk for make_key and as tb for tessellate
tessellate(c, cs, maxs, mk, tb, native) ==
    LET k == make_key(c, mk)
    IN  IF ~k.ok THEN [raised |-> TRUE, cache |-> c, currsize |-> cs]
        ELSE IF k.key \in Keys(k.cache)
        THEN [raised |-> FALSE, key |-> k.key, hit |-> TRUE, marks |-> k.marks,
              result |-> k.cache[Pos(k.cache, k.key)].value,
              cache |-> lru_touch(k.cache, k.key), currsize |-> cs]
        ELSE LET t == tessellate_body(tb, native)
             IN  IF ~t.ok THEN [raised |-> TRUE, cache |-> k.cache, currsize |-> cs]
                 ELSE LET st == lru_setitem(k.cache, cs, maxs, k.key, t.value,
                                            get_size(t.value))
                      IN  [raised |-> FALSE, key |-> k.key, hit |-> FALSE,
                           marks |-> k.marks \o t.marks, result |-> t.value,
                           cache |-> st.cache, currsize |-> st.currsize]

\* ------------------------------------------------------------------------
\* The process-wide cache under a sequence of tessellate calls
\* ------------------------------------------------------------------------
Progress == 300
Deviations == {11, 12}
Qualities == {21, 22}
AngularTolerance == 31
ShapeIds == 40

\* OCP_CACHE_SIZE_MB, in units of the smallest mesh
CacheSizes == {2, 4}

\* How a caller passes the flags: by keyword, as tessellate_group does, or
\* positionally in the order of tessellate's parameters
KwCall(shape, h, d, q, cf, ce) ==
    [pos |-> <<shape, h>>,
     kw |-> [deviation |-> d, quality |-> q, angular_tolerance |-> AngularTolerance,
             debug |-> PyFalse, compute_faces |-> cf, compute_edges |-> ce,
             progress |-> Progress, shape_id |-> ShapeIds],
     five |-> <<h, d, AngularTolerance, ce, cf>>]
PosCall(shape, h, d, q, cf, ce) ==
    [pos |-> <<shape, h, d, q, AngularTolerance, cf, ce>>,
     kw |-> [progress |-> Progress],
     five |-> <<h, d, AngularTolerance, ce, cf>>]

TessInputs ==
    {KwCall(sh, ShapeContent(sh), 11, q, PyTrue, PyTrue) :
        sh \in {201, 203}, q \in Qualities}
    \cup {KwCall(202, 101, 11, 21, PyTrue, PyTrue),
          KwCall(201, 101, 12, 21, PyTrue, PyTrue),
          KwCall(201, 101, 11, 21, PyTrue, PyFalse),
          KwCall(201, 101, 11, 21, PyFalse, PyTrue),
          PosCall(201, 101, 11, 21, PyTrue, PyFalse)}

\* each call with its arguments bound for make_key and for tessellate
TessBound ==
    {[five |-> i.five, mk |-> BindMakeKey(i.pos, i.kw),
      tb |-> BindTessellate(i.pos, i.kw)] : i \in TessInputs}

ConvIdle ==
    /\ instances = <<>> /\ tree = <<>> /\ phase = "done" /\ passes = 0
    /\ saved = None /\ calls = <<>> /\ seenT = {}

InitCache ==
    /\ ConvIdle /\ MpIdle /\ BBoxIdle /\ ThrIdle /\ PassIdle
    /\ maxsize \in CacheSizes
    /\ cache = <<>>
    /\ currsize = 0
    /\ call = None
    /\ first = <<>>
    /\ used = <<>>
    /\ ncalls = 0

Tessellate ==
    /\ ncalls < MaxTess
    /\ \E inp \in TessBound, native \in BOOLEAN :
          LET r == tessellate(cache, currsize, maxsize, inp.mk, inp.tb, native)
          IN  /\ ~r.raised
              /\ cache' = r.cache
              /\ currsize' = r.currsize
              /\ call' = Some([five |-> inp.five, key |-> r.key, hit |-> r.hit,
                               incache |-> r.key \in Keys(cache),
                               cached |-> IF r.key \in Keys(cache)
                                          THEN Some(cache[Pos(cache, r.key)].value)
                                          ELSE None,
                               prior |-> IF inp.five \in DOMAIN first
                                         THEN Some(first[inp.five]) ELSE None,
                               size |-> get_size(r.result),
                               marks |-> r.marks, result |-> r.result,
                               before |-> cache])
              /\ first' = IF inp.five \in DOMAIN first THEN first
                          ELSE With(first, inp.five,
                                    [key |-> r.key, result |-> r.result])
              /\ used' = With(used, r.key, ncalls + 1)
    /\ ncalls' = ncalls + 1
    /\ UNCHANGED <<passVars, bboxVars>>
    /\ UNCHANGED <<maxsize, convVars, mpVars, thr>>

NextCache == Tessellate

SpecCache == InitCache /\ [][NextCache]_vars

\* ------------------------------------------------------------------------
\* Claims about the conversion pass
\* ------------------------------------------------------------------------
CallIdx == 1..Len(calls)

\* C1: within one pass, registering the same shape twice returns the same
\* registry index both times.
C1_IdempotentRegistration ==
    \A i, j \in CallIdx : calls[i].arg = calls[j].arg => calls[i].ref = calls[j].ref

C1_Witness ==
    \E i, j \in CallIdx : i < j /\ calls[i].arg = calls[j].arg /\ calls[i].len0 > 0

\* C2: within one pass, registering s moved by p and registering s return the
\* same index, and the placement returned for the moved shape is p composed
\* with the placement returned for s.
C2_PlacementInvariance ==
    \A i, j \in CallIdx : \A p \in AllLocs :
        calls[j].arg = Moved(calls[i].arg, p)
        => /\ calls[j].ref = calls[i].ref
           /\ calls[j].loc = Mul(p, calls[i].loc)

C2_Witness ==
    \E i, j \in CallIdx : \E p \in AllLocs \ {Id} :
        /\ i # j
        /\ calls[i].arg.loc # Id
        /\ Mul(p, calls[i].arg.loc) # Mul(calls[i].arg.loc, p)
        /\ calls[j].arg = Moved(calls[i].arg, p)

\* C3: at every point of a pass the registry holds exactly one entry per
\* distinct placement-stripped shape met so far, whatever kind of input
\* brought the shape in.
C3_OneEntryPerShape ==
    /\ \A i, j \in 1..Len(instances) :
          instances[i].obj.tshape = instances[j].obj.tshape => i = j
    /\ TShapesOf(instances) = seenT

\* C4: during a pass the registry is append-only: entries keep their index
\* and their content, a new shape gets the index equal to the registry length
\* before the call, and every registration of a shape returns the earliest
\* index holding that shape.
C4_Stable ==
    passes' = passes
    => /\ Len(instances') >= Len(instances)
       /\ \A i \in 1..Len(instances) : instances'[i] = instances[i]

C4_Indices ==
    \A k \in CallIdx :
        LET c == calls[k]
            holding == {i \in 1..Len(instances) :
                            instances[i].obj.tshape = c.arg.tshape}
        IN  /\ holding # {}
            /\ c.ref = Min(holding) - 1
            /\ c.ref <= c.len0
            /\ instances[c.ref + 1].obj = Shape(c.arg.tshape, Id)

C4_AppendOnly == [][C4_Stable]_vars /\ []C4_Indices

C4_Witness ==
    \E i, j \in CallIdx :
        /\ i < j
        /\ calls[i].len0 > 0
        /\ calls[i].ref = calls[i].len0
        /\ calls[j].ref = calls[i].ref
        /\ calls[j].len0 > calls[i].len0
        /\ calls[j].arg # calls[i].arg

\* C10: every Object node has exactly one of obj and ref set, fixed by its
\* kind: solid, face, shell and imageface carry only ref, edge and vertex
\* carry only obj.
C10_ObjXorRef ==
    \A k \in 1..Len(ObjectNodes) :
        LET n == ObjectNodes[k]
        IN  /\ n.kind \in {"solid", "face", "shell", "imageface", "edge", "vertex"}
            /\ (n.obj = None) # (n.ref = None)
            /\ n.kind \in {"solid", "face", "shell", "imageface"} <=> n.ref # None
            /\ n.kind \in {"edge", "vertex"} <=> n.obj # None

C10_Witness ==
    /\ \E k \in 1..Len(ObjectNodes) : ObjectNodes[k].kind = "imageface"
    /\ \E k \in 1..Len(ObjectNodes) : ObjectNodes[k].kind = "edge"
    /\ \E k \in 1..Len(ObjectNodes) :
          ObjectNodes[k].kind = "solid" /\ ObjectNodes[k].ref[1] > 0

\* ------------------------------------------------------------------------
\* Parallel mode: mp_tessellate behind the same cache
\* ------------------------------------------------------------------------
mp_tessellate_params ==
    <<"shapes", "deviation", "quality", "angular_tolerance",
      "compute_faces", "compute_edges", "debug", "progress">>
mp_tessellate_defaults ==
    [compute_faces |-> PyTrue, compute_edges |-> PyTrue, debug |-> PyFalse,
     progress |-> PyNone]
BindMpTessellate(pos, kw) ==
    Bind(mp_tessellate_params, 4, mp_tessellate_defaults, pos, kw)

\* KeyMapper.add(key): the path "obj<counter>" and the mapper afterwards
keymap_add(kmap, key) ==
    [path |-> kmap.counter,
     keymap |-> [counter |-> kmap.counter + 1,
                 map |-> With(kmap.map, kmap.counter, key)]]

\* mp_tessellate's body: its own make_key call, the path registered for the
\* key, the job handed to the pool, and the ApplyResult <<0, path>> returned
mp_tessellate_body(c, b, kmap, jbs) ==
    IF ~b.ok THEN [ok |-> FALSE]
    ELSE LET k == make_key(c, BindMakeKey(
                      <<b.args["shapes"], b.args["deviation"], b.args["quality"],
                        b.args["angular_tolerance"]>>,
                      [compute_edges |-> PyTrue, compute_faces |-> PyTrue]))
         IN  IF ~k.ok THEN [ok |-> FALSE]
             ELSE LET a == keymap_add(kmap, k.key)
                  IN  [ok |-> TRUE, keymap |-> a.keymap,
                       jobs |-> Append(jbs, [path |-> a.path, key |-> k.key]),
                       value |-> <<0, a.path>>]

\* @cached(cache, key=make_key) around mp_tessellate: one whole call, its
\* arguments bound as mk for make_key and as mb for mp_tessellate
mp_tessellate(c, cs, maxs, kmap, jbs, mk, mb) ==
    LET k == make_key(c, mk)
        same == [cache |-> c, currsize |-> cs, keymap |-> kmap, jobs |-> jbs]
    IN  IF ~k.ok
        THEN [raised |-> TRUE, key |-> None, result |-> None] @@ same
        ELSE IF k.key \in Keys(k.cache)
        THEN [raised |-> FALSE, key |-> Some(k.key),
              result |-> Some(k.cache[Pos(k.cache, k.key)].value),
              cache |-> lru_touch(k.cache, k.key), currsize |-> cs,
              keymap |-> kmap, jobs |-> jbs]
        ELSE LET t == mp_tessellate_body(k.cache, mb, kmap, jbs)
             IN  IF ~t.ok
                 THEN [raised |-> TRUE, key |-> Some(k.key), result |-> None,
                       cache |-> k.cache, currsize |-> cs,
                       keymap |-> kmap, jobs |-> jbs]
                 ELSE LET st == lru_setitem(k.cache, cs, maxs, k.key, t.value,
                                            get_size(t.value))
                      IN  [raised |-> FALSE, key |-> Some(k.key),
                           result |-> Some(t.value),
                           cache |-> st.cache, currsize |-> st.currsize,
                           keymap |-> t.keymap, jobs |-> t.jobs]

\* How mp_tessellate is called: as OCP_Part.collect_shapes calls it, with
\* every argument of its own signature in order, and with the required
\* arguments only (positionally, or the tolerances by keyword)
MpInputs ==
    {[pos |-> <<sh, ShapeContent(sh)>>,
      kw |-> [deviation |-> 11, quality |-> 21,
              angular_tolerance |-> AngularTolerance, debug |-> PyFalse,
              compute_edges |-> PyTrue, progress |-> Progress,
              shape_id |-> ShapeIds]] : sh \in {201, 203}}
    \cup {[pos |-> <<201, 11, 21, AngularTolerance, PyTrue, PyTrue, PyFalse, Progress>>,
           kw |-> <<>>],
          [pos |-> <<201, 11, 21, AngularTolerance>>, kw |-> <<>>],
          [pos |-> <<201>>,
           kw |-> [deviation |-> 11, quality |-> 21,
                   angular_tolerance |-> AngularTolerance]]}

\* each call with its arguments bound for make_key and for mp_tessellate
MpBound ==
    {[mk |-> BindMakeKey(i.pos, i.kw), mb |-> BindMpTessellate(i.pos, i.kw)] :
        i \in MpInputs}

\* KeyMapper.get_key(path): the key registered for the path, None for a path
\* the mapper does not know
keymap_get_key(kmap, path) ==
    IF path \in DOMAIN kmap.map THEN Some(kmap.map[path]) ELSE None

\* get_mp_result(apply_result), the worker having returned (path, result):
\* cache.__setitem__(keymap.get_key(path), result), which raises ValueError
\* for a result larger than the budget and leaves the cache as it was
get_mp_result(c, cs, maxs, kmap, path, result) ==
    LET key == keymap_get_key(kmap, path)
        st == lru_setitem(c, cs, maxs, key, result, get_size(result))
    IN  [raised |-> ~st.ok, key |-> key, result |-> result,
         cache |-> st.cache, currsize |-> st.currsize]

MpTessellate ==
    /\ ncalls < MaxTess
    /\ \E inp \in MpBound :
          LET r == mp_tessellate(cache, currsize, maxsize, keymap, jobs,
                                 inp.mk, inp.mb)
          IN  /\ cache' = r.cache
              /\ currsize' = r.currsize
              /\ keymap' = r.keymap
              /\ jobs' = r.jobs
              /\ mpcall' = Some([raised |-> r.raised, key |-> r.key,
                                 incache |-> r.key # None /\ r.key[1] \in Keys(cache),
                                 result |-> r.result, jobs0 |-> Len(jobs)])
    /\ ncalls' = ncalls + 1
    /\ UNCHANGED <<passVars, bboxVars>>
    /\ UNCHANGED <<maxsize, call, first, used, convVars, thr>>

InitMp == InitCache

NextMp == Tessellate \/ MpTessellate

SpecMp == InitMp /\ [][NextMp]_vars

\* ------------------------------------------------------------------------
\* Two threads of one process calling tessellate: the steps of the cached
\* wrapper and of Cache.__setitem__ between which the interpreter may switch
\* ------------------------------------------------------------------------
Threads == {1, 2}
ThrBound == {i \in TessBound : i.five[4] = PyTrue /\ i.five[5] = PyTrue}
ThrRest == [pc |-> "idle", inp |-> None, key |-> None, value |-> None]

\* wrapper: k = key(*args, **kwargs); try: return cache[k]
ThrCall(t) ==
    /\ thr[t].pc = "idle"
    /\ ncalls < MaxTess
    /\ \E inp \in ThrBound :
          LET k == make_key(cache, inp.mk)
          IN  /\ k.ok
              /\ IF k.key \in Keys(k.cache)
                 THEN /\ cache' = lru_touch(k.cache, k.key)
                      /\ thr' = [thr EXCEPT ![t] = ThrRest]
                 ELSE /\ cache' = k.cache
                      /\ thr' = [thr EXCEPT ![t] = [pc |-> "func", inp |-> Some(inp),
                                                    key |-> Some(k.key), value |-> None]]
    /\ ncalls' = ncalls + 1
    /\ UNCHANGED <<passVars, bboxVars>>
    /\ UNCHANGED <<maxsize, currsize, call, first, used, convVars, mpVars>>

\* wrapper: v = func(*args, **kwargs)
ThrFunc(t) ==
    /\ thr[t].pc = "func"
    /\ thr' = [thr EXCEPT ![t].pc = "setitem",
                          ![t].value = Some(tessellate_body(thr[t].inp[1].tb, FALSE).value)]
    /\ UNCHANGED <<passVars, bboxVars>>
    /\ UNCHANGED <<cacheVars, convVars, mpVars>>

\* wrapper: cache[k] = v, up to the end of the popitem loop; ValueError for a
\* value larger than maxsize is swallowed by the wrapper
ThrSetBegin(t) ==
    /\ thr[t].pc = "setitem"
    /\ LET size == get_size(thr[t].value[1])
       IN  IF size > maxsize
           THEN /\ thr' = [thr EXCEPT ![t] = ThrRest]
                /\ UNCHANGED <<cache, currsize>>
           ELSE LET e == setitem_evict(cache, currsize, maxsize, thr[t].key[1], size)
                IN  /\ cache' = e.cache
                    /\ currsize' = e.currsize
                    /\ thr' = [thr EXCEPT ![t].pc = "store"]
    /\ UNCHANGED <<passVars, bboxVars>>
    /\ UNCHANGED <<maxsize, call, first, used, ncalls, convVars, mpVars>>

\* wrapper: cache[k] = v, the store after the popitem loop; return v
ThrSetEnd(t) ==
    /\ thr[t].pc = "store"
    /\ LET st == setitem_store(cache, currsize, thr[t].key[1], thr[t].value[1],
                               get_size(thr[t].value[1]))
       IN  /\ cache' = st.cache
           /\ currsize' = st.currsize
    /\ thr' = [thr EXCEPT ![t] = ThrRest]
    /\ UNCHANGED <<passVars, bboxVars>>
    /\ UNCHANGED <<maxsize, call, first, used, ncalls, convVars, mpVars>>

InitThreads ==
    /\ ConvIdle /\ MpIdle /\ BBoxIdle /\ PassIdle
    /\ maxsize \in CacheSizes
    /\ cache = <<>>
    /\ currsize = 0
    /\ call = None
    /\ first = <<>>
    /\ used = <<>>
    /\ ncalls = 0
    /\ thr = [t \in Threads |-> ThrRest]

NextThreads ==
    \E t \in Threads : ThrCall(t) \/ ThrFunc(t) \/ ThrSetBegin(t) \/ ThrSetEnd(t)

SpecThreads == InitThreads /\ [][NextThreads]_vars

\* ------------------------------------------------------------------------
\* Claims about the tessellation cache
\* ------------------------------------------------------------------------
MarkSet(m) == {m[i] : i \in 1..Len(m)}

\* C5 as stated: a tessellate call that repeats the five key values of an
\* earlier call returns the mesh of that call and runs no tessellator (its
\* only mark is 'c').  Stated for calls whose flags reach make_key as given.
C5_RepeatAlwaysHits ==
    call # None /\ call[1].prior # None
      /\ call[1].key = call[1].five /\ call[1].prior[1].key = call[1].five
    => /\ call[1].result = call[1].prior[1].result
       /\ MarkSet(call[1].marks) \subseteq {"c"}

\* C5 as amended: a tessellate call whose key the cache holds when the call is
\* made returns the cached mesh and runs no tessellator, its only mark being
\* 'c'; a call whose key the cache does not hold runs the tessellator.
C5_HitServesCache ==
    call # None
    => LET c == call[1]
       IN  /\ c.hit = c.incache
           /\ c.incache => /\ c.result = c.cached[1]
                           /\ c.marks = <<"c">>
                           /\ c.key \in Keys(cache)
                           /\ cache[Pos(cache, c.key)].value = c.cached[1]
           /\ ~c.incache => /\ "c" \notin MarkSet(c.marks)
                            /\ MarkSet(c.marks) \cap {"+", "*"} # {}

C5_Witness ==
    /\ call # None
    /\ call[1].hit
    /\ call[1].prior # None
    /\ call[1].result = call[1].prior[1].result
    /\ Len(cache) >= 2
    /\ used[call[1].key] = ncalls

\* C6: two tessellate calls that agree on (content hash, deviation,
\* angular_tolerance, compute_edges, compute_faces) resolve to the same cache
\* key, whatever else differs between them.
C6_SameFiveSameKey ==
    call # None /\ call[1].prior # None => call[1].key = call[1].prior[1].key

\* C30: a cache hit returns a mesh that was computed with the compute_faces
\* and compute_edges of the request, whether the request passes the flags by
\* keyword or positionally.
C30_HitSameFlags ==
    call # None /\ call[1].hit
    => /\ call[1].result[4] = call[1].five[5]
       /\ call[1].result[5] = call[1].five[4]

\* C7: the sizes of the cached meshes sum to currsize, which never exceeds the
\* budget; an insertion that would exceed it evicts least recently used
\* entries first, and no more of them than the new entry needs.
RECURSIVE SumSizes(_)
SumSizes(c) == IF c = <<>> THEN 0 ELSE c[1].size + SumSizes(Tail(c))

Dropped == {i \in 1..Len(call[1].before) : call[1].before[i].key \notin Keys(cache)}

C7_Budget ==
    /\ currsize = SumSizes(cache)
    /\ currsize <= maxsize
    /\ \A i, j \in 1..Len(cache) : cache[i].key = cache[j].key => i = j
    /\ \A i \in 1..Len(cache) : cache[i].size = get_size(cache[i].value)
    /\ call # None
       => LET b == call[1].before
          IN  /\ \A i \in Dropped : \A k \in Keys(cache) \ {call[1].key} :
                    used[b[i].key] < used[k]
              /\ Dropped # {} =>
                    /\ ~call[1].hit
                    /\ \E i \in Dropped :
                          SumSizes(b) - SumSizes([j \in 1..Cardinality(Dropped \ {i})
                                                    |-> b[CHOOSE n \in Dropped \ {i} :
                                                          Cardinality({m \in Dropped \ {i} : m < n}) = j - 1]])
                            + call[1].size > maxsize

C7_Witness ==
    /\ call # None
    /\ Dropped # {}
    /\ \E k \in Keys(cache) \ {call[1].key} :
          \E i \in Dropped : used[k] > used[call[1].before[i].key] + 1
    /\ currsize = maxsize

\* ------------------------------------------------------------------------
\* Claims about parallel mode and about concurrent callers
\* ------------------------------------------------------------------------
\* C8: in parallel mode a request for a key the cache does not hold leaves a
\* pending job handle for that key in the cache and starts one worker job; a
\* request that finds a pending handle returns that handle and starts no job;
\* no two jobs in flight are for the same key.
C8_OnePendingPerKey ==
    /\ \A i, j \in 1..Len(jobs) : jobs[i].key = jobs[j].key => i = j
    /\ mpcall # None /\ mpcall[1].key # None /\ ~mpcall[1].incache
       => /\ ~mpcall[1].raised
          /\ mpcall[1].result[1][1] = 0
          /\ \E i \in 1..Len(cache) : /\ cache[i].key = mpcall[1].key[1]
                                      /\ cache[i].value = mpcall[1].result[1]
          /\ Len(jobs) = mpcall[1].jobs0 + 1
    /\ mpcall # None /\ mpcall[1].incache
       => /\ ~mpcall[1].raised
          /\ Len(jobs) = mpcall[1].jobs0

\* C29: a parallel request for a key the cache does not hold has a job in
\* flight whose pending handle is the cache entry of the request's key; when
\* the job's result is collected, the mesh replaces the handle under that
\* key: a lookup of the key returns the mesh and no entry holds the handle.
Collected(job, mesh) ==
    LET r == get_mp_result(cache, currsize, maxsize, keymap, job.path, mesh)
    IN  /\ ~r.raised
        /\ r.key = mpcall[1].key
        /\ r.cache[Pos(r.cache, mpcall[1].key[1])].value = mesh
        /\ \A i \in 1..Len(r.cache) : r.cache[i].value # <<0, job.path>>

C29_CollectedReplacesPending ==
    mpcall # None /\ mpcall[1].key # None /\ ~mpcall[1].incache
    => \E j \in 1..Len(jobs) :
          /\ cache[Pos(cache, mpcall[1].key[1])].value = <<0, jobs[j].path>>
          /\ Collected(jobs[j], Mesh(201, 21, AngularTolerance, PyTrue, PyTrue))

\* C9: at no time are two threads inside a mutation of the cache: between the
\* eviction and the store of one thread's insert no other thread is between
\* the eviction and the store of its own.
C9_Serialized ==
    Cardinality({t \in DOMAIN thr : thr[t].pc = "store"}) <= 1

\* ------------------------------------------------------------------------
\* One call of to_ocp, of make_unique or of cleanup, from its arguments to
\* its outcome
\* ------------------------------------------------------------------------
\* build123d / CadQuery objects: the wrapped TopoDS shape, label and color
CadShape(t, l, label, color) ==
    [type |-> "shape", wrapped |-> Shape(t, l), label |-> label, color |-> color]
TopoCompound(t, items) == [tshape |-> t, loc |-> Id, items |-> items]
CadCompound(t, items) ==
    [type |-> "compound", wrapped |-> TopoCompound(t, items), label |-> None,
     color |-> None]
PyList(items) == [type |-> "list", items |-> items]
PyDict(keys, items) == [type |-> "dict", keys |-> keys, items |-> items]

Box       == CadShape(1, Id, None, None)
BoxCopy   == CadShape(1, Swap, None, None)      \* the same box, moved
Box2      == CadShape(9, Id, None, None)        \* a box of another size
GreenPart == CadShape(1, Rot, <<"part">>, Some(Named("green")))
EdgeObj   == CadShape(5, Id, None, None)
FaceObj   == CadShape(3, Swap, None, Some([rgb |-> "blue", a |-> 150]))
Number    == [type |-> "number"]
Unknown   == [type |-> "unknown"]

EmptyList     == PyList(<<>>)
NumList       == PyList(<<Number>>)
BoxList       == PyList(<<Box, BoxCopy>>)
EmptyDict     == PyDict(<<>>, <<>>)
NumDict       == PyDict(<<<<"a">>>>, <<Number>>)
BoxDict       == PyDict(<<<<"a">>, <<"b">>>>, <<Box, EdgeObj>>)
EmptyCompound == CadCompound(20, <<>>)
Mixed         == CadCompound(21, <<Shape(1, Id), Shape(5, Id)>>)
Unmixed       == CadCompound(22, <<Shape(1, Id), Shape(9, Swap)>>)
NestedMixed   ==
    CadCompound(23, <<Shape(1, Id),
                      TopoCompound(24, <<Shape(9, Id), Shape(3, Id)>>)>>)
NestedSame    ==
    CadCompound(25, <<Shape(1, Id), TopoCompound(26, <<Shape(9, Id), Shape(1, Rot)>>)>>)
Edges         == CadCompound(27, <<Shape(5, Id), Shape(5, Swap)>>)
NestedPart    ==
    CadCompound(28, <<Shape(7, Id), TopoCompound(29, <<Shape(1, Id), Shape(9, Id)>>)>>)

CqAssembly ==
    [type |-> "cq_assembly", obj |-> Some(Box), name |-> <<"asm">>,
     color |-> Some(Named("green")), loc |-> Rot]
CoordSystem ==
    [type |-> "wrapper", color |-> Some(Named("axes")),
     wrapper |-> [kind |-> "edge", objs |-> <<Shape(5, Id), Shape(5, Swap)>>,
                  loc |-> Id, name |-> "CoordSystem"]]
ImageFace ==
    [type |-> "wrapper", color |-> Some(Named("image")),
     wrapper |-> [kind |-> "imageface", objs |-> <<Shape(8, Swap)>>, loc |-> Rot,
                  name |-> "ImageFace"]]

ShapeObjs  == {Box, BoxCopy, Box2, GreenPart, EdgeObj, FaceObj}
Compounds  == {EmptyCompound, Mixed, Unmixed, NestedMixed, NestedSame, Edges,
               NestedPart}
Containers == {EmptyList, NumList, BoxList, EmptyDict, NumDict, BoxDict}
Pool == ShapeObjs \cup Compounds \cup Containers
        \cup {Number, Unknown, CqAssembly, CoordSystem, ImageFace}

SeqsUpTo(S, n) == UNION {[1..l -> S] : l \in 0..n}
Repeat(x, l) == [i \in 1..l |-> x]
OptLists(x) == {None} \cup {Some(Repeat(x, l)) : l \in 0..MaxObjs}

Red == [rgb |-> "red", a |-> 100]

ToOcpCall(insts, cad_objs, names, colors, alphas) ==
    [fn |-> "to_ocp", instances |-> insts, cad_objs |-> cad_objs,
     names |-> names, colors |-> colors, alphas |-> alphas]

\* a registry that already holds the box, as after an earlier to_ocp(box)
BoxRegistry == to_ocp(<<>>, <<Box>>, None, None, None).instances

ToOcpInputs ==
    \* shapes only, nothing else given
    {ToOcpCall(<<>>, objs, None, None, None) : objs \in SeqsUpTo(ShapeObjs, MaxObjs)}
    \* one or two objects of any kind, unnamed or named
    \cup {ToOcpCall(<<>>, objs, names, None, None) :
            objs \in {<<a>> : a \in Pool}, names \in {None, Some(<<<<"z">>>>)}}
    \cup {ToOcpCall(<<>>, <<a, b>>, None, None, None) : a \in Pool, b \in Pool}
    \* lists of names, colors and alphas of any length
    \cup {ToOcpCall(insts, objs, names, colors, alphas) :
            insts \in {<<>>, BoxRegistry},
            objs \in SeqsUpTo({Box2, EdgeObj}, MaxObjs),
            names \in OptLists(<<"a">>), colors \in OptLists(Some(Red)),
            alphas \in OptLists(Some(50))}
    \* one object with or without a color and an alpha
    \cup {ToOcpCall(<<>>, <<a>>, None, Some(<<c>>), Some(<<al>>)) :
            a \in Pool, c \in {None, Some(Red)}, al \in {None, Some(50)}}
    \* names that repeat, some of them written like a generated name
    \cup UNION {{ToOcpCall(<<>>, objs, Some(names), None, None) :
                    objs \in [1..l -> {Box, GreenPart}],
                    names \in [1..l -> {None, <<"a">>, <<"a", "(2)">>}]} :
                l \in 1..MaxObjs}

MakeUniqueInputs ==
    {[fn |-> "make_unique", names |-> names] :
        names \in SeqsUpTo({None, <<"a">>, <<"b">>, <<"a", "(2)">>}, MaxObjs)}

Leaf(loc) == OcpObject("solid", None, Some(0), <<"Solid">>, loc, None)
CleanupInputs ==
    {[fn |-> "cleanup", group |-> g] :
        g \in {Group(<<"G1">>, p1, <<Group(<<"G2">>, p2, <<Leaf(l)>>)>>) :
                  p1 \in AllLocs, p2 \in AllLocs, l \in Locs}
              \cup {Group(<<"G1">>, p1, <<Leaf(l)>>) : p1 \in AllLocs, l \in Locs}
              \cup {Group(<<"G1">>, p1, <<Group(<<"G2">>, p2, <<Leaf(Id), Leaf(l)>>)>>) :
                       p1 \in AllLocs, p2 \in Locs, l \in Locs}
              \cup {Group(<<"G1">>, p1, <<>>) : p1 \in Locs}}

ConvIdleCall ==
    /\ instances = <<>> /\ tree = <<>> /\ phase = "done" /\ passes = 0
    /\ saved = None /\ calls = <<>> /\ seenT = {}

\* copy_topods_shape(obj): BRepBuilderAPI_Copy builds a duplicate of the
\* shape, a new TShape with the same content, at the same location
copy_topods_shape(obj, fresh) == [obj EXCEPT !.tshape = fresh]

\* get_location(obj) for a TopoDS_Shape (or for None)
get_location(obj) == IF obj = None THEN None ELSE Some(obj.loc)

\* relocate(obj): obj2 = copy_topods_shape(obj); tshape = get_tshape(obj2);
\* obj2.Move(loc.Inverted()); obj2.TShape(tshape)
relocate(obj, fresh) ==
    IF get_location(obj) = None THEN [obj |-> obj, loc |-> Id]
    ELSE [obj |-> Moved(copy_topods_shape(obj, fresh),
                        Inverted(get_location(obj)[1])),
          loc |-> get_location(obj)[1]]

RelocateInputs ==
    {[fn |-> "relocate", obj |-> Shape(t, l)] : t \in CallerTShapes, l \in AllLocs}
    \cup {[fn |-> "relocate", obj |-> None]}

InitCall ==
    /\ ConvIdleCall /\ CacheIdle /\ MpIdle /\ BBoxIdle /\ ThrIdle
    /\ args \in {Some(a) : a \in ToOcpInputs \cup MakeUniqueInputs \cup CleanupInputs
                                \cup RelocateInputs}
    /\ out = None

\* the caller calls to_ocp on a converter
ToOcp ==
    /\ out = None
    /\ args[1].fn = "to_ocp"
    /\ out' = Some(to_ocp(args[1].instances, args[1].cad_objs, args[1].names,
                          args[1].colors, args[1].alphas))
    /\ UNCHANGED <<bboxVars, args, convVars, cacheVars, mpVars, thr>>

MakeUnique ==
    /\ out = None
    /\ args[1].fn = "make_unique"
    /\ out' = Some(make_unique(args[1].names))
    /\ UNCHANGED <<bboxVars, args, convVars, cacheVars, mpVars, thr>>

Cleanup ==
    /\ out = None
    /\ args[1].fn = "cleanup"
    /\ out' = Some(cleanup(args[1].group))
    /\ UNCHANGED <<bboxVars, args, convVars, cacheVars, mpVars, thr>>

\* the relocation step: relocate(obj) of ocp_utils, and what get_instance
\* puts into an empty registry for the same shape
Relocate ==
    /\ out = None
    /\ args[1].fn = "relocate"
    /\ out' = Some([relocated |-> relocate(args[1].obj, FirstFreshT),
                    registered |->
                        IF args[1].obj = None THEN <<>>
                        ELSE get_instance(<<>>, args[1].obj,
                                          create_cache_id(<<args[1].obj>>),
                                          "Solid").instances])
    /\ UNCHANGED <<bboxVars, args, convVars, cacheVars, mpVars, thr>>

NextCall == ToOcp \/ MakeUnique \/ Cleanup \/ Relocate

SpecCall == InitCall /\ [][NextCall]_vars

\* ------------------------------------------------------------------------
\* to_ocp followed by tessellate_group, pass after pass in one process
\* ------------------------------------------------------------------------
\* the TopoDS shape as the kernel and the tessellator see it
KernelShape(obj) == 200 + obj.tshape

\* the call tessellate_group makes for one instance of the registry
GroupCall(instance) ==
    [pos |-> <<KernelShape(instance.obj), instance.cache_id>>,
     kw |-> [deviation |-> 11, quality |-> 21,
             angular_tolerance |-> AngularTolerance, debug |-> PyFalse,
             compute_edges |-> PyTrue, progress |-> Progress,
             shape_id |-> ShapeIds]]

\* tessellate_group, loop body: meshed_instances.append(mesh), with the key
\* of the call, whether the cache held it, and the progress marks
tessellated(acc, r) ==
    [cache |-> r.cache, currsize |-> r.currsize,
     meshed_instances |-> Append(acc.meshed_instances, r.result),
     keys |-> Append(acc.keys, r.key),
     incache |-> Append(acc.incache, r.key \in Keys(acc.cache)),
     marks |-> Append(acc.marks, r.marks)]

\* the loop of tessellate_group walking the registry from its end
RECURSIVE tessellate_instances_reversed(_, _, _, _, _)
tessellate_instances_reversed(acc, insts, i, maxs, native) ==
    IF i > Len(insts) THEN acc
    ELSE tessellate_instances_reversed(
             tessellated(acc,
                 tessellate(acc.cache, acc.currsize, maxs,
                            BindMakeKey(GroupCall(insts[Len(insts) + 1 - i]).pos,
                                        GroupCall(insts[Len(insts) + 1 - i]).kw),
                            BindTessellate(GroupCall(insts[Len(insts) + 1 - i]).pos,
                                           GroupCall(insts[Len(insts) + 1 - i]).kw),
                            native)),
             insts, i + 1, maxs, native)

\* the loop of tessellate_group over the instances: the meshes, which of
\* them the cache served, the progress marks, and the cache afterwards
RECURSIVE tessellate_instances(_, _, _, _, _)
tessellate_instances(acc, insts, i, maxs, native) ==
    IF i > Len(insts) THEN acc
    ELSE tessellate_instances(
             tessellated(acc,
                 tessellate(acc.cache, acc.currsize, maxs,
                            BindMakeKey(GroupCall(insts[i]).pos, GroupCall(insts[i]).kw),
                            BindTessellate(GroupCall(insts[i]).pos,
                                           GroupCall(insts[i]).kw),
                            native)),
             insts, i + 1, maxs, native)

\* np_bbox(vertices, t, q): None for a mesh without vertices, else the box
\* of the mesh at the location.  A box is the set of what it encloses: meshes
\* by content, inline edges and vertices as content 0.
np_bbox(mesh, loc) == IF mesh[1] = 100 THEN None ELSE Some({<<mesh[1], loc>>})

\* get_bb_max(shapes, meshed_instances, loc, bbox): the box folded over the
\* parts, or the TypeError of subscripting None
RECURSIVE get_bb_max(_, _, _, _)
get_bb_max(parts, meshed_instances, loc, bbox) ==
    LET F[i \in 0..Len(parts)] ==
            IF i = 0 THEN [raised |-> FALSE, bbox |-> bbox]
            ELSE IF F[i - 1].raised THEN F[i - 1]
            ELSE LET shape == parts[i]
                     new_loc == Mul(loc, shape.loc)
                 IN  IF IsGroup(shape)
                     THEN get_bb_max(shape.objects, meshed_instances, new_loc,
                                     F[i - 1].bbox)
                     ELSE LET bb == IF shape.ref # None
                                    THEN np_bbox(meshed_instances[shape.ref[1] + 1],
                                                 new_loc)
                                    ELSE Some({<<0, new_loc>>})
                          IN  IF F[i - 1].bbox = None
                              THEN [raised |-> FALSE, bbox |-> bb]
                              ELSE IF bb = None
                              THEN [raised |-> TRUE, bbox |-> None]
                              ELSE [raised |-> FALSE,
                                    bbox |-> Some(F[i - 1].bbox[1] \cup bb[1])]
        r == F[Len(parts)]
    IN  IF r.raised \/ r.bbox = None THEN [raised |-> TRUE, bbox |-> None] ELSE r

\* tessellate_group, after the loop: the bounding box over the meshes
group_result(t, bb) ==
    [raised |-> bb.raised, error |-> IF bb.raised THEN "TypeError" ELSE "",
     bb |-> bb.bbox, meshed_instances |-> t.meshed_instances,
     keys |-> t.keys, incache |-> t.incache, marks |-> t.marks,
     cache |-> t.cache, currsize |-> t.currsize]

\* shapes["bb"] = get_bb_max(shapes, meshed_instances, top_loc)
group_bb(group, t) ==
    group_result(t, get_bb_max(group.objects, t.meshed_instances, group.loc, None))

\* tessellate_group(group, instances)
tessellate_group(group, insts, c, cs, maxs, native) ==
    group_bb(group,
             tessellate_instances(
                 [cache |-> c, currsize |-> cs, meshed_instances |-> <<>>,
                  keys |-> <<>>, incache |-> <<>>, marks |-> <<>>],
                 insts, 1, maxs, native))

BoxTwin    == CadShape(2, Id, None, None)       \* a second Box(1, 2, 3)
Degenerate == CadShape(4, Id, None, None)       \* a shell that meshes to nothing

PipeObjs == {Box, BoxCopy, Box2, BoxTwin, Degenerate}
PipeLists == UNION {[1..l -> PipeObjs] : l \in 1..MaxObjs}
PipeLater == {<<Box2, BoxTwin>>, <<EdgeObj, Box>>, <<Degenerate>>}

\* OCP_CACHE_SIZE_MB, in units of the smallest mesh
PipeCacheSizes == {1, 2, 4}

PipeCall(cad_objs, native) ==
    [fn |-> "show", cad_objs |-> cad_objs, native |-> native]

InitPipe ==
    /\ MpIdle /\ BBoxIdle /\ ThrIdle
    /\ instances = <<>> /\ tree = <<>> /\ phase = "convert" /\ passes = 1
    /\ saved = None /\ calls = <<>> /\ seenT = {}
    /\ maxsize \in PipeCacheSizes
    /\ cache = <<>> /\ currsize = 0
    /\ call = None /\ first = <<>> /\ used = <<>> /\ ncalls = 0
    /\ args \in {Some(PipeCall(l, n)) : l \in PipeLists, n \in BOOLEAN}
    /\ out = None

\* to_ocp(*cad_objs) on the pass's converter
PipeConvert ==
    /\ phase = "convert"
    /\ \E r \in {to_ocp(instances, args[1].cad_objs, None, None, None)} :
           /\ instances' = r.instances
           /\ tree' = r.node
    /\ phase' = "tessellate"
    /\ UNCHANGED <<bboxVars, args, out, passes, saved, calls, seenT, cacheVars, mpVars, thr>>

\* tessellate_group(group, instances)
PipeTessellate ==
    /\ phase = "tessellate"
    /\ \E r \in {tessellate_group(tree[1], instances, cache, currsize, maxsize,
                                  args[1].native)} :
           /\ cache' = r.cache
           /\ currsize' = r.currsize
           /\ ncalls' = ncalls + Len(r.keys)
           /\ out' = Some([raised |-> r.raised, error |-> r.error, bb |-> r.bb,
                           meshed_instances |-> r.meshed_instances,
                           keys |-> r.keys, incache |-> r.incache,
                           marks |-> r.marks, before |-> cache])
    /\ phase' = "done"
    /\ UNCHANGED <<bboxVars, args, instances, tree, passes, saved, calls, seenT,
                   maxsize, call, first, used, mpVars, thr>>

\* the next show: a new converter, the same objects or other ones
PipeNewPass ==
    /\ phase = "done"
    /\ passes < MaxPasses
    /\ passes' = passes + 1
    /\ phase' = "convert"
    /\ instances' = <<>>
    /\ tree' = <<>>
    /\ out' = None
    /\ \E l \in {args[1].cad_objs} \cup PipeLater :
          args' = Some(PipeCall(l, args[1].native))
    /\ UNCHANGED <<bboxVars, saved, calls, seenT, cacheVars, mpVars, thr>>

NextPipe == PipeConvert \/ PipeTessellate \/ PipeNewPass

SpecPipe == InitPipe /\ [][NextPipe]_vars

\* ------------------------------------------------------------------------
\* compute_quality: decimal numbers m * 10^e, exact
\* ------------------------------------------------------------------------
RECURSIVE Pow10(_)
Pow10(n) == IF n = 0 THEN 1 ELSE 10 * Pow10(n - 1)

\* one value for one number: no trailing zero in the mantissa
RECURSIVE Norm(_, _)
Norm(m, ex) == IF m # 0 /\ m % 10 = 0 THEN Norm(m \div 10, ex + 1) ELSE <<m, ex>>

\* round(a / b), halves to the even neighbour as Python's round does
RoundDiv(a, b) ==
    IF 2 * (a % b) < b THEN a \div b
    ELSE IF 2 * (a % b) > b THEN (a \div b) + 1
    ELSE IF (a \div b) % 2 = 0 THEN a \div b ELSE (a \div b) + 1

\* the j with 10^(sig-1) * b * 10^j <= a < 10^sig * b * 10^j, for a >= 10^sig * b
RECURSIVE Down(_, _, _, _)
Down(a, b, sig, j) ==
    IF a < Pow10(sig) * b * Pow10(j) THEN j ELSE Down(a, b, sig, j + 1)
\* the j with 10^(sig-1) * b <= a * 10^j, for 0 < a < 10^sig * b
RECURSIVE Up(_, _, _, _)
Up(a, b, sig, j) ==
    IF a * Pow10(j) >= Pow10(sig - 1) * b THEN j ELSE Up(a, b, sig, j + 1)

\* round_sig(x, sig) for x = (a / b) * 10^ex >= 0: x rounded to sig
\* significant digits; math.log10(0) raises ValueError
round_sig(a, b, ex, sig) ==
    IF a = 0 THEN [raised |-> TRUE, error |-> "ValueError"]
    ELSE IF a >= Pow10(sig) * b
    THEN [raised |-> FALSE,
          value |-> Norm(RoundDiv(a, b * Pow10(Down(a, b, sig, 0))),
                         ex + Down(a, b, sig, 0))]
    ELSE [raised |-> FALSE,
          value |-> Norm(RoundDiv(a * Pow10(Up(a, b, sig, 0)), b),
                         ex - Up(a, b, sig, 0))]

\* sizes are whole numbers of 10^-6
SizeExp == 0 - 6
round_size(size) == round_sig(size, 1, SizeExp, 3)

MinExp(x, y, z) == Min({x[2], y[2], z[2]})
\* x + y + z for three decimal numbers, as a mantissa at their smallest exponent
Sum3(x, y, z) ==
    x[1] * Pow10(x[2] - MinExp(x, y, z)) + y[1] * Pow10(y[2] - MinExp(x, y, z))
        + z[1] * Pow10(z[2] - MinExp(x, y, z))

\* (x + y + z) / 300 * deviation, rounded to 3 significant digits
quality_of(x, y, z, deviation) ==
    IF x.raised \/ y.raised \/ z.raised
    THEN [raised |-> TRUE, error |-> "ValueError"]
    ELSE round_sig(Sum3(x.value, y.value, z.value) * deviation[1], 3,
                   MinExp(x.value, y.value, z.value) + deviation[2] - 2, 3)

\* compute_quality(bb, deviation=0.1)
compute_quality(bb, deviation) ==
    quality_of(round_size(bb.xsize), round_size(bb.ysize), round_size(bb.zsize),
               deviation)

\* BoundingBox._bounding_box(obj, tol=1e-6): the kernel's box unless it is
\* void, else the center of mass plus and minus tol; _calc gives the sizes
Tol == 1
bounding_box_sizes(obj) ==
    IF ~obj.void
    THEN [xsize |-> obj.extent[1], ysize |-> obj.extent[2], zsize |-> obj.extent[3]]
    ELSE [xsize |-> 2 * Tol, ysize |-> 2 * Tol, zsize |-> 2 * Tol]

\* the extents the kernel reports, in units of 10^-6: a flat dimension, float
\* dust, a millimetre, a size next to a rounding boundary, one, two
Extents == {0, 2, 1000, 1004970, 1000000}
\* float noise: less than 10^-4 in each dimension
Noise == {0, 60}
DefaultDeviation == <<1, 0 - 1>>
DeviationValues == {DefaultDeviation, <<2, 0 - 1>>}

KernelBox(void, x, y, z) == [void |-> void, extent |-> <<x, y, z>>]
QualityInputs ==
    {[fn |-> "compute_quality", obj |-> KernelBox(v, x, y, z),
      noisy |-> KernelBox(v, x + nx, y + ny, z + nz), deviation |-> d] :
        v \in BOOLEAN, x \in Extents, y \in Extents, z \in Extents,
        nx \in Noise, ny \in Noise, nz \in Noise, d \in DeviationValues}

InitQuality ==
    /\ ConvIdleCall /\ CacheIdle /\ MpIdle /\ BBoxIdle /\ ThrIdle
    /\ args \in {Some(a) : a \in QualityInputs}
    /\ out = None

\* bb = BoundingBox(shape); quality = compute_quality(bb, deviation), for a
\* shape and for the same shape with noise on its box
ComputeQuality ==
    /\ out = None
    /\ args[1].fn = "compute_quality"
    /\ out' = Some([bb |-> bounding_box_sizes(args[1].obj),
                    bb_noisy |-> bounding_box_sizes(args[1].noisy),
                    quality |-> compute_quality(bounding_box_sizes(args[1].obj),
                                                args[1].deviation),
                    quality_noisy |->
                        compute_quality(bounding_box_sizes(args[1].noisy),
                                        args[1].deviation)])
    /\ UNCHANGED <<bboxVars, args, convVars, cacheVars, mpVars, thr>>

NextQuality == ComputeQuality

SpecQuality == InitQuality /\ [][NextQuality]_vars

\* ------------------------------------------------------------------------
\* bounding_box and its cache, while shapes are created and discarded
\* ------------------------------------------------------------------------
\* the addresses the allocators hand out, for Python objects and for TShapes
PyAddrs == {"p1", "p2"}
TAddrs == {"t1", "t2"}
\* what a shape is made of; the kernel's box of a shape is fixed by it
BoxContents == {"box 1x1x1", "box 2x2x2", "box 3x3x3"}

\* ocp_utils.cache = LRUCache(maxsize=16 * 1024 * 1024): room for more
\* BoundingBox objects, of size 1 each, than there are keys
BBoxMaxsize == 16

\* TopoDS_Shape.HashCode(MAX_HASH_KEY): derived from the address of the TShape
\* (and the location, the identity for the shapes of a registry)
HashCode(s) == s.tshape

\* ocp_utils.make_key(objs, loc=None, optimal=False)
bbox_make_key(s, loc) == <<<<<<HashCode(s), s.id>>>>, loc>>

\* BoundingBox(compound): the kernel measures the shape
BoundingBox(s) == <<"bb", s.content>>

\* @cached(cache, key=make_key) around bounding_box(objs, loc=None)
bounding_box(c, s) ==
    IF bbox_make_key(s, None) \in Keys(c)
    THEN [hit |-> TRUE, cache |-> lru_touch(c, bbox_make_key(s, None)),
          result |-> c[Pos(c, bbox_make_key(s, None))].value]
    ELSE [hit |-> FALSE,
          cache |-> lru_setitem(c, Len(c), BBoxMaxsize, bbox_make_key(s, None),
                                BoundingBox(s), 1).cache,
          result |-> BoundingBox(s)]

InitBBox ==
    /\ ConvIdleCall /\ CacheIdle /\ MpIdle /\ ThrIdle /\ PassIdle
    /\ heap = {} /\ bbcache = <<>> /\ bbout = None

\* the caller builds a shape: the allocators place the Python object and
\* the TShape at any free address
CreateShape ==
    /\ \E p \in PyAddrs \ {s.id : s \in heap},
          t \in TAddrs \ {s.tshape : s \in heap},
          c \in BoxContents :
          heap' = heap \cup {[id |-> p, tshape |-> t, content |-> c]}
    /\ UNCHANGED <<bbcache, bbout, passVars, convVars, cacheVars, mpVars, thr>>

\* tessellate_group: bb = bounding_box(shape, loc=None, optimal=False)
CallBoundingBox ==
    /\ \E s \in heap :
          \E r \in {bounding_box(bbcache, s)} :
              /\ bbcache' = r.cache
              /\ bbout' = Some([shape |-> s, hit |-> r.hit, result |-> r.result])
    /\ UNCHANGED <<heap, passVars, convVars, cacheVars, mpVars, thr>>

\* del shape; gc.collect(): the addresses of the shape are free again
DiscardShape ==
    /\ \E s \in heap : heap' = heap \ {s}
    /\ UNCHANGED <<bbcache, bbout, passVars, convVars, cacheVars, mpVars, thr>>

NextBBox == CreateShape \/ CallBoundingBox \/ DiscardShape

SpecBBox == InitBBox /\ [][NextBBox]_vars

\* ------------------------------------------------------------------------
\* Claims about one to_ocp call
\* ------------------------------------------------------------------------
Called(fn) == out # None /\ args[1].fn = fn
Converted == Called("to_ocp") /\ ~out[1].raised
NamesOf(nodes) == [i \in 1..Len(nodes) |-> nodes[i].name]

\* the naming rule: the k-th sibling of a name, k >= 2, gets "(k)" appended
KthOccurrence(names) ==
    [i \in 1..Len(names) |->
        LET k == Cardinality({j \in 1..i : names[j] = names[i]})
        IN  IF names[i] = None \/ k = 1 THEN names[i]
            ELSE Append(names[i], Paren[k])]

\* the names the top-level shapes of a call end up with before the group
\* renames its children: the name given, else the label, else the type
NamesBeforeRename(a) ==
    LET given == IF a.names = None THEN [i \in 1..Len(a.cad_objs) |-> None]
                 ELSE KthOccurrence(a.names[1])
    IN  [i \in 1..Len(a.cad_objs) |->
            IF given[i] # None THEN given[i]
            ELSE IF a.cad_objs[i].label # None THEN a.cad_objs[i].label
            ELSE <<TypeOf[a.cad_objs[i].wrapped.tshape]>>]

OnlyShapes(a) == \A i \in 1..Len(a.cad_objs) : a.cad_objs[i] \in ShapeObjs

\* C11: among siblings that end up with the same name the first keeps the
\* bare name and the k-th (k >= 2), in traversal order, is renamed name(k);
\* three unnamed solids become Solid, Solid(2), Solid(3).
C11_KthOccurrenceRenamed ==
    /\ Called("make_unique") => out[1] = KthOccurrence(args[1].names)
    /\ Converted /\ OnlyShapes(args[1])
          => NamesOf(out[1].node[1].objects)
                = KthOccurrence(NamesBeforeRename(args[1]))

C11_Witness ==
    /\ Converted
    /\ args[1].cad_objs = <<Box, BoxCopy, Box2>>
    /\ args[1].names = None
    /\ NamesOf(out[1].node[1].objects)
          = <<<<"Solid">>, <<"Solid", "(2)">>, <<"Solid", "(3)">>>>

LengthErrors ==
    {"Length of names does not match the number of objects",
     "Length of alphas does not match the number of objects",
     "Length of colors does not match the number of objects"}

WrongLength(l, n) == l # None /\ Len(l[1]) # n
Mismatch(a) ==
    \/ WrongLength(a.names, Len(a.cad_objs))
    \/ WrongLength(a.colors, Len(a.cad_objs))
    \/ WrongLength(a.alphas, Len(a.cad_objs))

\* C12: when the length of names, colors or alphas differs from the number
\* of objects the call raises a validation error before anything is built:
\* no handler has run, no node exists and the registry is as it was.
C12_ValidationFirst ==
    Called("to_ocp") /\ Mismatch(args[1])
        => /\ out[1].raised
           /\ out[1].error \in LengthErrors
           /\ out[1].handled = 0
           /\ out[1].node = None
           /\ out[1].instances = args[1].instances

C12_Witness ==
    /\ Called("to_ocp")
    /\ args[1].instances = BoxRegistry
    /\ args[1].cad_objs = <<Box2, EdgeObj>>
    /\ args[1].names = None /\ args[1].alphas = Some(<<Some(50), Some(50)>>)
    /\ args[1].colors = Some(<<Some(Red)>>)
    /\ out[1].raised
    /\ out[1].error = "Length of colors does not match the number of objects"
    /\ out[1].instances = BoxRegistry

HasUnknown(a) == \E i \in 1..Len(a.cad_objs) : a.cad_objs[i] = Unknown

\* C13: an object of unrecognized type makes the call raise an error that
\* carries the object's type; nothing is returned, hence no partial tree.
C13_UnknownTypeRaises ==
    Called("to_ocp") /\ ~Mismatch(args[1]) /\ HasUnknown(args[1])
        => /\ out[1].raised
           /\ out[1].node = None

\* the OcpObjects of a tree, left to right
RECURSIVE Leaves(_)
Leaves(node) ==
    IF ~IsGroup(node) THEN <<node>>
    ELSE LET F[i \in 0..Length(node)] ==
                 IF i = 0 THEN <<>> ELSE F[i - 1] \o Leaves(node.objects[i])
         IN  F[Length(node)]

EmptyInputs == {EmptyList, EmptyDict, EmptyCompound, NumList, NumDict}

IsPlaceholder(o, name) ==
    /\ o.kind = "vertex"
    /\ o.name = Append(IF name = None THEN <<"Object">> ELSE name, " (empty)")
    /\ o.obj # None
    /\ o.ref = None
    /\ o.color.a = 1

\* C14: an empty list, dict or compound, or a container whose elements all
\* convert to nothing, converts to a tree whose only object is the vertex
\* '<name> (empty)', inline, without ref, alpha 0.01; never to an empty tree.
C14_EmptyGivesPlaceholder ==
    /\ Called("to_ocp")
    /\ Len(args[1].cad_objs) = 1
    /\ args[1].cad_objs[1] \in EmptyInputs
    /\ ~Mismatch(args[1])
    => /\ ~out[1].raised
       /\ Len(Leaves(out[1].node[1])) = 1
       /\ IsPlaceholder(Leaves(out[1].node[1])[1],
                        IF args[1].names = None THEN None ELSE args[1].names[1][1])

\* the types of the leaf shapes of a compound, nested compounds flattened
RECURSIVE LeafTypes(_)
LeafTypes(items) ==
    UNION {IF is_topods_compound(items[i]) THEN LeafTypes(items[i].items)
           ELSE {TypeOf[items[i].tshape]} : i \in 1..Len(items)}

AllSameType(compound) == Cardinality(LeafTypes(compound.items)) <= 1
CommonKind(compound) == get_kind(CHOOSE t \in LeafTypes(compound.items) : TRUE)

\* an Object of the kind: solids, faces and shells by ref, the others inline
IsObjectOfKind(node, kind) ==
    /\ ~IsGroup(node)
    /\ node.kind = kind
    /\ IF kind \in DedupKinds THEN node.ref # None /\ node.obj = None
       ELSE node.ref = None /\ node.obj # None

\* the node a direct element of a mixed compound converts to
ChildFor(node, elem) ==
    IF ~is_topods_compound(elem)
    THEN IsObjectOfKind(node, get_kind(TypeOf[elem.tshape]))
    ELSE IF AllSameType(elem) THEN IsObjectOfKind(node, CommonKind(elem))
    ELSE IsGroup(node) /\ Length(node) = Len(elem.items)

OneCompound(a) ==
    /\ Len(a.cad_objs) = 1
    /\ a.cad_objs[1] \in Compounds \ {EmptyCompound}

KindDefault(kind) ==
    CASE kind = "solid" -> "default_color"
      [] kind \in {"face", "shell", "imageface"} -> "Violet"
      [] kind \in {"edge", "vertex"} -> "MediumOrchid"

ByPrecedence(cad_obj, color, kind) ==
    IF color # None THEN color[1].rgb
    ELSE IF "color" \in DOMAIN cad_obj /\ cad_obj.color # None
    THEN cad_obj.color[1].rgb
    ELSE KindDefault(kind)

ColorsByPrecedence(a, node) ==
    \A i \in 1..Len(Leaves(node)) :
        Leaves(node)[i].color.rgb
            = ByPrecedence(a.cad_objs[1],
                           IF a.colors = None THEN None ELSE a.colors[1][1],
                           Leaves(node)[i].kind)

OneObject(a) == Len(a.cad_objs) = 1 /\ ~Mismatch(a)

Distinct(names) ==
    \A i, j \in 1..Len(names) :
        i # j /\ names[i] # None => names[i] # names[j]

\* C27: after name disambiguation the names of the children of one group
\* are pairwise distinct, None aside, whatever the names were before, names
\* that already look like name(k) included.
C27_NamesDistinct ==
    /\ Called("make_unique") => Distinct(out[1])
    /\ Converted => Distinct(NamesOf(out[1].node[1].objects))

\* ------------------------------------------------------------------------
\* Claims about cleanup
\* ------------------------------------------------------------------------
\* the world placements of the Objects of a tree under the placement acc
RECURSIVE WorldLocs(_, _)
WorldLocs(node, acc) ==
    IF ~IsGroup(node) THEN <<Mul(acc, node.loc)>>
    ELSE LET F[i \in 0..Length(node)] ==
                 IF i = 0 THEN <<>>
                 ELSE F[i - 1] \o WorldLocs(node.objects[i], Mul(acc, node.loc))
         IN  F[Length(node)]

TwoWrappers(g) ==
    /\ Length(g) = 1 /\ IsGroup(g.objects[1])
    /\ Length(g.objects[1]) = 1 /\ ~IsGroup(g.objects[1].objects[1])

\* C18: a Group at P1 whose only child is a Group at P2 whose only child is X
\* cleans up to X at P1 o P2 o X.placement; cleanup never changes the world
\* placement of an Object.
C18_CleanupComposes ==
    Called("cleanup")
        => LET g == args[1].group
           IN  /\ WorldLocs(out[1], Id) = WorldLocs(g, Id)
               /\ TwoWrappers(g)
                     => LET X == g.objects[1].objects[1]
                        IN  out[1] = [X EXCEPT !.loc =
                                        Mul(g.loc, Mul(g.objects[1].loc, X.loc))]

C18_Witness ==
    /\ Called("cleanup")
    /\ TwoWrappers(args[1].group)
    /\ args[1].group.loc = Swap
    /\ args[1].group.objects[1].loc = Rot
    /\ args[1].group.objects[1].objects[1].loc = Swap
    /\ out[1].loc = Mul(Swap, Mul(Rot, Swap))
    /\ out[1].loc # Swap

\* ------------------------------------------------------------------------
\* Claims about the effects of a pass
\* ------------------------------------------------------------------------
\* C19: a conversion pass changes the registry and the tree it builds and
\* nothing else: the objects the caller passes in, here the pre-built
\* OcpInstancesGroup, are the same after every step of the pass.
C19_InputsUnchanged == [][saved' = saved]_vars

\* ------------------------------------------------------------------------
\* Claims about to_ocp followed by tessellate_group
\* ------------------------------------------------------------------------
Tessellated == phase = "done" /\ out # None

\* the first shape, translated copies of it, and one shape of another size
DedupList(l) ==
    /\ Len(l) >= 2
    /\ l[1] = Box
    /\ Cardinality({i \in 1..Len(l) : l[i] = Box2}) = 1
    /\ \A i \in 1..Len(l) : l[i] \in {Box, BoxCopy, Box2}

\* the calls of a pass in which the tessellator ran
Ran(o) == {i \in 1..Len(o.marks) : o.marks[i] \in {<<"*">>, <<"+">>}}

\* the cache budget held every mesh: nothing the cache had or the pass asked
\* for is missing afterwards
WithinBudget == Keys(out[1].before) \cup Range(out[1].keys) \subseteq Keys(cache)

\* C17 as stated: from an empty cache a list of translated copies plus one
\* other shape gives 2 registry entries and 2 cache entries, and in every
\* pass the tessellator runs once per distinct hash not cached before.
C17_DedupCount ==
    Tessellated
        => /\ DedupList(args[1].cad_objs) /\ out[1].before = <<>>
                 => Len(instances) = 2 /\ Len(cache) = 2
           /\ Cardinality(Ran(out[1]))
                 = Cardinality(Range(out[1].keys) \ Keys(out[1].before))

\* C17: a list of translated copies of one shape plus one other shape gives
\* a registry of size 2; tessellate is called once per registry entry, never
\* per occurrence; a call whose key the cache holds is a hit, any other runs
\* the tessellator; and while the cache budget holds every mesh, the cache
\* of a pass that started empty has exactly 2 entries and the tessellator
\* runs once per distinct content hash that was not cached before the pass.
C17_DedupWithinBudget ==
    Tessellated
        => /\ Len(out[1].keys) = Len(instances)
           /\ \A i \in 1..Len(out[1].keys) :
                 /\ out[1].keys[i][1] = instances[i].cache_id
                 /\ out[1].marks[i] = IF out[1].incache[i] THEN <<"c">>
                                      ELSE IF args[1].native THEN <<"*">>
                                      ELSE <<"+">>
           /\ DedupList(args[1].cad_objs) => Len(instances) = 2
           /\ WithinBudget
                 => /\ Cardinality(Ran(out[1]))
                          = Cardinality(Range(out[1].keys) \ Keys(out[1].before))
                    /\ DedupList(args[1].cad_objs) /\ out[1].before = <<>>
                          => Len(cache) = 2

C17_Witness ==
    /\ Tessellated
    /\ passes = 1
    /\ args[1].cad_objs = <<Box, BoxCopy, Box2>>
    /\ args[1].native
    /\ maxsize = 4
    /\ out[1].before = <<>>
    /\ Len(instances) = 2
    /\ Len(cache) = 2
    /\ out[1].marks = <<<<"*">>, <<"*">>>>

\* the calls of a pass whose mesh has no vertex and no triangle
EmptyMeshes(o) == {i \in 1..Len(o.meshed_instances) : o.meshed_instances[i][1] = 100}

\* C20: when the tessellation of an instance yields an empty mesh, the mesh
\* is in the cache under the instance's key like any other result, and
\* tessellate_group completes: it raises nothing and returns the scene with
\* a combined bounding box.
C20_EmptyMeshCompletes ==
    Tessellated /\ EmptyMeshes(out[1]) # {}
        => /\ \A i \in EmptyMeshes(out[1]) : out[1].keys[i] \in Keys(cache)
           /\ ~out[1].raised
           /\ out[1].bb # None

\* the mesh the kernel gives for a registry entry under tessellate_group's
\* parameters
MeshOfInstance(instance) ==
    Mesh(KernelShape(instance.obj), GroupCall(instance).kw.quality,
         GroupCall(instance).kw.angular_tolerance, PyTrue,
         GroupCall(instance).kw.compute_edges)

\* C22: in every pass the registry is complete before the first tessellate
\* call: the registry changes only while to_ocp runs (or is replaced by the
\* empty registry of the next pass's converter), tessellate is called only
\* after to_ocp has returned, and the instances tessellated are exactly the
\* final registry, entry by entry.
C22_RegistryBeforeTessellation ==
    [][/\ instances' # instances
             => \/ phase = "convert"
                \/ phase = "done" /\ instances' = <<>> /\ passes' = passes + 1
       /\ ncalls' # ncalls
             => /\ phase = "tessellate"
                /\ instances' = instances
                /\ Len(out'[1].keys) = Len(instances)
                /\ \A i \in 1..Len(instances) :
                      /\ out'[1].keys[i][1] = instances[i].cache_id
                      /\ out'[1].meshed_instances[i] = MeshOfInstance(instances[i])
      ]_vars

C22_Witness ==
    /\ Tessellated
    /\ passes = 2
    /\ args[1].cad_objs = <<Box2, BoxTwin>>
    /\ Len(instances) = 2
    /\ Len(out[1].meshed_instances) = 2
    /\ ncalls = 3

\* ------------------------------------------------------------------------
\* Claims about the relocation step
\* ------------------------------------------------------------------------
\* C23: relocating a shape preserves its identity key: the placement-free
\* shape the relocation step returns has the TShape of the shape it was
\* given, for relocate as for the step inside get_instance.
C23_RelocateKeepsIdentity ==
    Called("relocate") /\ args[1].obj # None
        => /\ out[1].relocated.obj.loc = Id
           /\ out[1].relocated.obj.tshape = args[1].obj.tshape
           /\ out[1].registered[1].obj.loc = Id
           /\ out[1].registered[1].obj.tshape = args[1].obj.tshape

\* ------------------------------------------------------------------------
\* Claims about the refs of the tree
\* ------------------------------------------------------------------------
\* what a cache id says about the content of the shapes, placements aside
ContentsOf(cache_id) == [i \in 1..Len(cache_id) |-> cache_id[i][1]]

\* C28: after any sequence of to_ocp steps on one converter, merges of a
\* pre-built OcpInstancesGroup included (also of the same one, repeatedly),
\* every ref of the tree is an index into the converter's registry, and the
\* entry at that index has the content of the shape the node was made for.
C28_RefsResolve ==
    \A i \in 1..Len(ObjectNodes) :
        ObjectNodes[i].ref # None
            => /\ ObjectNodes[i].ref[1] < Len(instances)
               /\ ObjectNodes[i].cache_id # None
                     => ContentsOf(instances[ObjectNodes[i].ref[1] + 1].cache_id)
                           = ContentsOf(ObjectNodes[i].cache_id[1])

\* ------------------------------------------------------------------------
\* Claims about the content hash
\* ------------------------------------------------------------------------
\* unify and handle_ocp_wrapper evaluate create_cache_id for the argument of
\* every get_instance call they make, so the pass has computed one hash per
\* call recorded
HashesComputed == Len(calls)
\* the calls of the pass that appended a registry entry
Registered == {i \in 1..Len(calls) : calls[i].ref = calls[i].len0}

\* C24: the content hash is computed once per newly discovered shape and
\* not once per occurrence: the hashes computed in a pass are as many as
\* the registry entries its registrations created.
C24_HashPerNewShape == HashesComputed = Cardinality(Registered)

\* ------------------------------------------------------------------------
\* Claims about compute_quality
\* ------------------------------------------------------------------------
Abs(n) == IF n < 0 THEN 0 - n ELSE n
\* two boxes whose sizes differ by less than 10^-4 (100 units of 10^-6) in
\* each dimension
CloseBoxes(a, b) ==
    /\ Abs(a.xsize - b.xsize) < 100
    /\ Abs(a.ysize - b.ysize) < 100
    /\ Abs(a.zsize - b.zsize) < 100

\* C21: for two bounding boxes whose sizes differ by less than 1e-4 in each
\* dimension, and the same deviation, compute_quality returns the identical
\* quality value.
C21_NoiseSameQuality ==
    /\ Called("compute_quality")
    /\ CloseBoxes(out[1].bb, out[1].bb_noisy)
    /\ ~out[1].quality.raised /\ ~out[1].quality_noisy.raised
    => out[1].quality.value = out[1].quality_noisy.value

\* C25: quality computation never fails on degenerate geometry: a void
\* kernel box becomes the box center +- tol instead of an error, and
\* compute_quality raises for no box, a box with a zero-size dimension
\* included.
C25_QualityNeverRaises ==
    Called("compute_quality")
        => /\ args[1].obj.void
                 => /\ out[1].bb = [xsize |-> 2 * Tol, ysize |-> 2 * Tol,
                                    zsize |-> 2 * Tol]
                    /\ ~out[1].quality.raised
           /\ ~out[1].quality.raised

\* ------------------------------------------------------------------------
\* Claims about the bounding-box cache
\* ------------------------------------------------------------------------
\* C26: across any sequence of conversions in which shapes are created,
\* measured and discarded, the box bounding_box returns for a shape is the
\* box of that shape, never one computed for another, earlier shape.
C26_BoxOfThisShape ==
    bbout # None => bbout[1].result = BoundingBox(bbout[1].shape)

====
